---- MODULE Spec2Model ----
(***************************************************************************)
(* Model of the IR compiler core of openboundary: the symbol table         *)
(* (internal/ir/symbols.go), the Builder (internal/ir/builder.go), the     *)
(* binding grammar (internal/openapi/parser.go) and the dependency graph   *)
(* algorithms (internal/ir/graph.go).                                      *)
(*                                                                         *)
(* Go strings that the code takes apart (component IDs, references,        *)
(* binds_to values, paths) are sequences of one-character strings.         *)
(* A pointer to a Component is its index in `heap`.                         *)
(***************************************************************************)
EXTENDS Integers, Sequences, FiniteSets, TLC

VARIABLES
  spec,        \* parser.Spec.Components handed to Build
  Components,  \* ir.Components: map ID -> *Component
  heap,        \* the Component structs, by pointer
  Edges,       \* ir.Edges
  Symbols,     \* ir.Symbols.symbols: map name -> Symbol
  errs,        \* the error list Build accumulates and returns
  pc,          \* position of the running operation
  call,        \* the operation that is running or has returned
  iComp,       \* Build phase 1: the loop index i into spec.Components
  todo,        \* keys of the map being ranged over that are still to come
  visited,     \* DetectCycles / TopologicalSort: visited
  inStack,     \* DetectCycles: inStack
  path,        \* DetectCycles: path
  cycles,      \* DetectCycles: cycles
  result,      \* TopologicalSort: the returned slice
  sortErr,     \* TopologicalSort: the returned error
  trace        \* the SymbolTable calls made so far, each with what it returned

vars == <<spec, Components, heap, Edges, Symbols, errs, pc, call, iComp, todo,
          visited, inStack, path, cycles, result, sortErr, trace>>

irVars    == <<Components, heap, Edges, Symbols>>
graphVars == <<visited, inStack, path, cycles, result, sortErr>>

(***************************************************************************)
(* Bounds of the model.                                                    *)
(***************************************************************************)
MaxNodes == 3   \* components of the IR the graph algorithms run on
MaxEdges == 3   \* dependency edges of that IR
MaxComps == 2   \* length of the component list handed to Build
MaxCalls == 4   \* SymbolTable calls in one run
MaxRefs  == 2   \* longest middleware list of the inputs of Validate
MaxGens  == 2   \* generators the plugin registry resolves in one run

(***************************************************************************)
(* Values.                                                                 *)
(***************************************************************************)
Nil      == [nil |-> TRUE]         \* a nil pointer to a struct, a nil error
NilSlice == [nil |-> TRUE, elems |-> <<>>]
Slice(s) == [nil |-> FALSE, elems |-> s]

EmptyMap == [x \in {} |-> 0]
Put(m, k, v) == [x \in DOMAIN m \cup {k} |-> IF x = k THEN v ELSE m[x]]

Letters == <<"a", "b", "c", "d", "e", "f">>

SeqToSet(s) == {s[i] : i \in 1..Len(s)}

\* Known component kinds (ir.go).
KindHTTPServer == "http.server"
KindMiddleware == "middleware"
KindPostgres   == "postgres"
KindUsecase    == "usecase"
AllKinds == {KindHTTPServer, KindMiddleware, KindPostgres, KindUsecase}

\* Known edge types (ir.go).
EdgeTypeDependency == "dependency"
EdgeTypeMiddleware == "middleware"
EdgeTypeBinding    == "binding"

(***************************************************************************)
(* Strings.                                                                *)
(***************************************************************************)
Colon == ":"
Slash == "/"

\* strings.Index(s, c) + 1: the 1-based position of the first c, 0 if none.
Index(s, c) ==
  LET hits == {k \in 1..Len(s) : s[k] = c} IN
  IF hits = {} THEN 0 ELSE CHOOSE k \in hits : \A j \in hits : k <= j

\* strings.HasPrefix(s, c) for a one-character prefix.
HasPrefix(s, c) == Len(s) >= 1 /\ s[1] = c

GET     == <<"G", "E", "T">>
POST    == <<"P", "O", "S", "T">>
PUT     == <<"P", "U", "T">>
PATCH   == <<"P", "A", "T", "C", "H">>
DELETE  == <<"D", "E", "L", "E", "T", "E">>
HEAD    == <<"H", "E", "A", "D">>
OPTIONS == <<"O", "P", "T", "I", "O", "N", "S">>

\* validMethods of ParseBinding.
validMethods == {GET, POST, PUT, PATCH, DELETE, HEAD, OPTIONS}

(***************************************************************************)
(* The binding grammar and the contract parser (openapi/parser.go).        *)
(***************************************************************************)
BindingError(cause) == [err |-> "binding_format", cause |-> cause]
BindingFail(cause)  ==
  [serverID |-> <<>>, method |-> <<>>, path |-> <<>>, err |-> BindingError(cause)]

\* ParseBinding without the method whitelist.
ParseBindingTailAnyMethod(serverID, method, p) ==
  IF ~HasPrefix(p, Slash) THEN BindingFail("path")
  ELSE [serverID |-> serverID, method |-> method, path |-> p, err |-> Nil]

\* The rest of ParseBinding once both colons are found.
ParseBindingTail(serverID, method, p) ==
  IF method \notin validMethods THEN BindingFail("method")
  ELSE IF ~HasPrefix(p, Slash) THEN BindingFail("path")
  ELSE [serverID |-> serverID, method |-> method, path |-> p, err |-> Nil]

\* ParseBinding: (serverID, method, path, err).
ParseBinding(bindsTo) ==
  IF bindsTo = <<>> THEN BindingFail("empty")
  ELSE LET firstColon == Index(bindsTo, Colon) IN
       IF firstColon = 0 THEN BindingFail("format")
       ELSE LET serverID == SubSeq(bindsTo, 1, firstColon - 1)
                rest     == SubSeq(bindsTo, firstColon + 1, Len(bindsTo))
                secondColon == Index(rest, Colon)
            IN IF secondColon = 0 THEN BindingFail("format")
               ELSE ParseBindingTail(serverID,
                                     SubSeq(rest, 1, secondColon - 1),
                                     SubSeq(rest, secondColon + 1, Len(rest)))

\* OperationKey: "METHOD:/path".
OperationKey(method, p) == method \o <<Colon>> \o p

\* The contract files on disk: the operations each one documents, or
\* valid = FALSE for a file the loader rejects.  Any other path is missing.
ContractOK  == <<"o">>
ContractBad == <<"x">>
Files ==
  [f \in {ContractOK, ContractBad} |->
     IF f = ContractOK
     THEN [valid |-> TRUE,
           ops   |-> {[Method |-> GET,  Path |-> <<"/", "u">>],
                      [Method |-> POST, Path |-> <<"/", "u">>]}]
     ELSE [valid |-> FALSE, ops |-> {}]]

\* convertSpec: the Document of a loaded contract, operations keyed by
\* Operation.OperationKey().
convertSpec(ops) ==
  [Operations |->
     [k \in {OperationKey(o.Method, o.Path) : o \in ops} |->
        CHOOSE o \in ops : OperationKey(o.Method, o.Path) = k]]

\* Parser.ParseFile: (doc, err).
ParseFile(filename) ==
  IF filename \in DOMAIN Files /\ Files[filename].valid
  THEN [doc |-> convertSpec(Files[filename].ops), err |-> Nil]
  ELSE [doc |-> Nil, err |-> [err |-> "load_failed", path |-> filename]]

(***************************************************************************)
(* Typing the raw component spec (builder.go, parse*Spec).                 *)
(* A raw value is [type, val] with type the dynamic Go type.               *)
(***************************************************************************)
StrVal(s)  == [type |-> "string", val |-> s]
IntVal(n)  == [type |-> "int", val |-> n]
ListVal(l) == [type |-> "[]interface{}", val |-> l]

\* v, ok := m[key].(string); "" when absent or of another type.
stringField(m, key) ==
  IF key \in DOMAIN m /\ m[key].type = "string" THEN m[key].val ELSE <<>>

RECURSIVE toStringSlice(_)
\* toStringSlice: the string items, the others skipped.
toStringSlice(v) ==
  IF v = <<>> THEN <<>>
  ELSE IF Head(v).type = "string"
       THEN <<Head(v).val>> \o toStringSlice(Tail(v))
       ELSE toStringSlice(Tail(v))

\* v, ok := m[key].([]interface{}); nil when absent or of another type.
listField(m, key) ==
  IF key \in DOMAIN m /\ m[key].type = "[]interface{}"
  THEN Slice(toStringSlice(m[key].val))
  ELSE NilSlice

\* spec["port"] as int, else as float64 truncated, else 0.  A float64 is
\* held in tenths.
portField(m) ==
  IF "port" \notin DOMAIN m THEN 0
  ELSE IF m["port"].type = "int" THEN m["port"].val
  ELSE IF m["port"].type = "float64"
       THEN IF m["port"].val >= 0 THEN m["port"].val \div 10
            ELSE -((-m["port"].val) \div 10)
  ELSE 0

parseHTTPServerSpec(m) ==
  [Framework  |-> stringField(m, "framework"),
   Port       |-> portField(m),
   OpenAPI    |-> stringField(m, "openapi"),
   Middleware |-> listField(m, "middleware"),
   DependsOn  |-> listField(m, "depends_on"),
   ParsedOpenAPI |-> Nil]

parseMiddlewareSpec(m) ==
  [Provider  |-> stringField(m, "provider"),
   Config    |-> stringField(m, "config"),
   Model     |-> stringField(m, "model"),
   Policy    |-> stringField(m, "policy"),
   DependsOn |-> listField(m, "depends_on")]

parsePostgresSpec(m) ==
  [Provider |-> stringField(m, "provider"),
   Schema   |-> stringField(m, "schema")]

parseUsecaseSpec(m) ==
  [BindsTo            |-> stringField(m, "binds_to"),
   Middleware         |-> listField(m, "middleware"),
   Goal               |-> stringField(m, "goal"),
   Actor              |-> stringField(m, "actor"),
   Preconditions      |-> listField(m, "preconditions"),
   AcceptanceCriteria |-> listField(m, "acceptance_criteria"),
   Postconditions     |-> listField(m, "postconditions"),
   Binding            |-> Nil]

\* The Component Build allocates in phase 1, before its spec is parsed.
NewComponent(id, kind) ==
  [ID |-> id, Kind |-> kind, Dependencies |-> <<>>, Dependents |-> <<>>,
   HTTPServer |-> Nil, Middleware |-> Nil, Postgres |-> Nil, Usecase |-> Nil]

\* parseComponentSpec without the postgres case.
parseComponentSpecNoPostgres(comp, m) ==
  CASE comp.Kind = KindHTTPServer -> [comp EXCEPT !.HTTPServer = parseHTTPServerSpec(m)]
    [] comp.Kind = KindMiddleware -> [comp EXCEPT !.Middleware = parseMiddlewareSpec(m)]
    [] comp.Kind = KindUsecase    -> [comp EXCEPT !.Usecase = parseUsecaseSpec(m)]
    [] OTHER -> comp

\* parseComponentSpec: fills the variant that goes with comp.Kind.
parseComponentSpec(comp, m) ==
  CASE comp.Kind = KindHTTPServer -> [comp EXCEPT !.HTTPServer = parseHTTPServerSpec(m)]
    [] comp.Kind = KindMiddleware -> [comp EXCEPT !.Middleware = parseMiddlewareSpec(m)]
    [] comp.Kind = KindPostgres   -> [comp EXCEPT !.Postgres = parsePostgresSpec(m)]
    [] comp.Kind = KindUsecase    -> [comp EXCEPT !.Usecase = parseUsecaseSpec(m)]
    [] OTHER -> comp

\* ParseKind: (kind, err).
ParseKind(s) ==
  IF s \in AllKinds THEN [kind |-> s, err |-> Nil]
  ELSE [kind |-> "", err |-> [err |-> "unknown_kind", kind |-> s]]

(***************************************************************************)
(* Symbol table (symbols.go).                                              *)
(***************************************************************************)
NewSymbolTable == EmptyMap

DuplicateSymbolError(name, kind) ==
  [err |-> "duplicate_symbol", name |-> name, kind |-> kind]

\* Define with the existence test dropped: the last definition wins.
DefineOverwrite(symbols, name, kind, comp) ==
  [symbols |-> Put(symbols, name, [Name |-> name, Kind |-> kind, Component |-> comp]),
   err     |-> Nil]

\* SymbolTable.Define: the table after the call and the returned error.
Define(symbols, name, kind, comp) ==
  IF name \in DOMAIN symbols
  THEN [symbols |-> symbols,
        err     |-> DuplicateSymbolError(name, symbols[name].Kind)]
  ELSE [symbols |-> Put(symbols, name, [Name |-> name, Kind |-> kind, Component |-> comp]),
        err     |-> Nil]

\* SymbolTable.Lookup: (symbol, found).
Lookup(symbols, name) ==
  IF name \in DOMAIN symbols
  THEN [sym |-> symbols[name], ok |-> TRUE]
  ELSE [sym |-> Nil, ok |-> FALSE]

\* SymbolTable.Len
SymLen(symbols) == Cardinality(DOMAIN symbols)

(***************************************************************************)
(* Adding an edge to the IR (builder.go, addEdge).                         *)
(***************************************************************************)
UnresolvedReferenceError(ref, from) ==
  [err |-> "unresolved_reference", ref |-> ref, comp |-> from]

\* addEdge without "to.Dependents = append(to.Dependents, from)".
addEdgeNoDependents(h, edges, symbols, from, toRef, edgeType) ==
  LET l == Lookup(symbols, toRef) IN
  IF ~l.ok
  THEN [heap |-> h, Edges |-> edges,
        err |-> UnresolvedReferenceError(toRef, h[from].ID)]
  ELSE LET to == l.sym.Component
       IN [heap |-> [h EXCEPT ![from].Dependencies = Append(@, to)],
           Edges |-> Append(edges, [From |-> from, To |-> to, Type |-> edgeType]),
           err |-> Nil]

\* addEdge: the heap and edge list after the call and the returned error.
addEdge(h, edges, symbols, from, toRef, edgeType) ==
  LET l == Lookup(symbols, toRef) IN
  IF ~l.ok
  THEN [heap |-> h, Edges |-> edges,
        err |-> UnresolvedReferenceError(toRef, h[from].ID)]
  ELSE LET to == l.sym.Component
           h1 == [h  EXCEPT ![from].Dependencies = Append(@, to)]
           h2 == [h1 EXCEPT ![to].Dependents = Append(@, from)]
       IN [heap |-> h2,
           Edges |-> Append(edges, [From |-> from, To |-> to, Type |-> edgeType]),
           err |-> Nil]

(***************************************************************************)
(* Dependency graph (graph.go).                                            *)
(***************************************************************************)
\* extractCycle: the path from the first occurrence of targetID on.
extractCycle(p, targetID) ==
  LET hits == {i \in 1..Len(p) : p[i] = targetID} IN
  IF hits = {} THEN <<>>
  ELSE LET i == CHOOSE k \in hits : \A j \in hits : k <= j
       IN SubSeq(p, i, Len(p))

\* The closure dfs of DetectCycles.  st holds the variables the closure
\* shares with DetectCycles: visited, inStack, path, cycles.
RECURSIVE dfs(_, _, _)
RECURSIVE dfsRange(_, _, _, _)

\* dfs with the inStack test dropped: any visited neighbour counts as a cycle.
dfsRangeNoStack(h, comp, i, st) ==
  IF i > Len(h[comp].Dependencies)
  THEN [st |-> [st EXCEPT !.path = SubSeq(@, 1, Len(@) - 1),
                          !.inStack = @ \ {h[comp].ID}],
        found |-> FALSE]
  ELSE LET dep == h[comp].Dependencies[i] IN
       IF h[dep].ID \notin st.visited
       THEN LET r == dfs(h, dep, st) IN
            IF r.found THEN r ELSE dfsRange(h, comp, i + 1, r.st)
       ELSE [st |-> [st EXCEPT !.cycles =
                       Append(@, extractCycle(st.path, h[dep].ID))],
             found |-> TRUE]

\* The loop over comp.Dependencies from index i on, and the code after it.
dfsRange(h, comp, i, st) ==
  IF i > Len(h[comp].Dependencies)
  THEN [st |-> [st EXCEPT !.path = SubSeq(@, 1, Len(@) - 1),
                          !.inStack = @ \ {h[comp].ID}],
        found |-> FALSE]
  ELSE LET dep == h[comp].Dependencies[i] IN
       IF h[dep].ID \notin st.visited
       THEN LET r == dfs(h, dep, st) IN
            IF r.found THEN r ELSE dfsRange(h, comp, i + 1, r.st)
       ELSE IF h[dep].ID \in st.inStack
       THEN [st |-> [st EXCEPT !.cycles =
                       Append(@, extractCycle(st.path, h[dep].ID))],
             found |-> TRUE]
       ELSE dfsRange(h, comp, i + 1, st)

dfs(h, comp, st) ==
  dfsRange(h, comp, 1,
           [st EXCEPT !.visited = @ \cup {h[comp].ID},
                      !.inStack = @ \cup {h[comp].ID},
                      !.path    = Append(@, h[comp].ID)])

\* The closure visit of TopologicalSort.  st holds visited and result.
RECURSIVE visit(_, _, _)
RECURSIVE visitRange(_, _, _, _)

\* visit that emits the component before its dependencies.
visitPreOrder(h, comp, st) ==
  IF h[comp].ID \in st.visited THEN st
  ELSE visitRange(h, comp, 1,
         [st EXCEPT !.visited = @ \cup {h[comp].ID},
                    !.result  = Append(@, comp)])

visitRange(h, comp, i, st) ==
  IF i > Len(h[comp].Dependencies) THEN st
  ELSE visitRange(h, comp, i + 1, visit(h, h[comp].Dependencies[i], st))

visit(h, comp, st) ==
  IF h[comp].ID \in st.visited THEN st
  ELSE LET st1 == visitRange(h, comp, 1,
                    [st EXCEPT !.visited = @ \cup {h[comp].ID}])
       IN [st1 EXCEPT !.result = Append(@, comp)]

CycleError(cs) == [err |-> "cycle", Cycles |-> cs]


(***************************************************************************)
(* Build (builder.go).  A build state st is                                *)
(* [Components, heap, Edges, Symbols, errs].                               *)
(***************************************************************************)
\* ir.New(spec) and var errs []error.
NewIR ==
  [Components |-> EmptyMap, heap |-> EmptyMap, Edges |-> <<>>,
   Symbols |-> NewSymbolTable, errs |-> <<>>]

\* Phase 1, one iteration: raw is spec.Components[k], ptr the Component
\* the iteration allocates.
phase1Body(st, raw, ptr) ==
  LET k == ParseKind(raw.Kind) IN
  IF k.err # Nil
  THEN [st EXCEPT !.errs = Append(@, [err |-> "unknown_kind", comp |-> raw.ID,
                                      kind |-> raw.Kind])]
  ELSE LET irComp == parseComponentSpec(NewComponent(raw.ID, k.kind), raw.Spec)
           d      == Define(st.Symbols, raw.ID, k.kind, ptr)
       IN [st EXCEPT !.heap = Put(@, ptr, irComp),
                     !.Components = Put(@, raw.ID, ptr),
                     !.Symbols = d.symbols,
                     !.errs = IF d.err # Nil THEN Append(@, d.err) ELSE @]

\* The test after phase 1 with the early return dropped.
phase1FailedNever(es) == FALSE

\* if len(errs) > 0 { return ir, errs }
phase1Failed(es) == Len(es) > 0

\* parseOpenAPISpecs dropping the error of a contract that fails to parse.
parseOpenAPIBodySilent(st, c) ==
  LET comp == st.heap[c] IN
  IF comp.Kind # KindHTTPServer \/ comp.HTTPServer = Nil THEN st
  ELSE IF comp.HTTPServer.OpenAPI = <<>> THEN st
  ELSE LET r == ParseFile(comp.HTTPServer.OpenAPI) IN
       IF r.err # Nil THEN st
       ELSE [st EXCEPT !.heap[c].HTTPServer.ParsedOpenAPI = r.doc]

\* parseOpenAPISpecs, one iteration of its loop.
parseOpenAPIBody(st, c) ==
  LET comp == st.heap[c] IN
  IF comp.Kind # KindHTTPServer \/ comp.HTTPServer = Nil THEN st
  ELSE IF comp.HTTPServer.OpenAPI = <<>> THEN st
  ELSE LET r == ParseFile(comp.HTTPServer.OpenAPI) IN
       IF r.err # Nil
       THEN [st EXCEPT !.errs = Append(@, [err |-> "openapi_parse", comp |-> comp.ID,
                                           path |-> comp.HTTPServer.OpenAPI])]
       ELSE [st EXCEPT !.heap[c].HTTPServer.ParsedOpenAPI = r.doc]

\* extractServerFromBinding: the text before the first ':', "" if no ':'.
extractServerFromBinding(bindsTo) ==
  LET k == Index(bindsTo, Colon) IN
  IF k = 0 THEN <<>> ELSE SubSeq(bindsTo, 1, k - 1)

Refs(names, edgeType) ==
  [k \in 1..Len(names) |-> [ref |-> names[k], type |-> edgeType]]

\* The addEdge calls resolveReferences makes for comp, in order.
referencesOf(comp) ==
  CASE comp.Kind = KindHTTPServer ->
         IF comp.HTTPServer = Nil THEN <<>>
         ELSE Refs(comp.HTTPServer.Middleware.elems, EdgeTypeMiddleware)
              \o Refs(comp.HTTPServer.DependsOn.elems, EdgeTypeDependency)
    [] comp.Kind = KindMiddleware ->
         IF comp.Middleware = Nil THEN <<>>
         ELSE Refs(comp.Middleware.DependsOn.elems, EdgeTypeDependency)
    [] comp.Kind = KindUsecase ->
         IF comp.Usecase = Nil THEN <<>>
         ELSE (IF comp.Usecase.BindsTo # <<>>
                  /\ extractServerFromBinding(comp.Usecase.BindsTo) # <<>>
               THEN <<[ref  |-> extractServerFromBinding(comp.Usecase.BindsTo),
                       type |-> EdgeTypeBinding]>>
               ELSE <<>>)
              \o Refs(comp.Usecase.Middleware.elems, EdgeTypeMiddleware)
    [] OTHER -> <<>>

RECURSIVE addEdges(_, _, _)
\* The loop "if err := b.addEdge(...); err != nil { errs = append(errs, err) }".
addEdges(st, from, refs) ==
  IF refs = <<>> THEN st
  ELSE LET r == addEdge(st.heap, st.Edges, st.Symbols, from,
                        Head(refs).ref, Head(refs).type)
       IN addEdges([st EXCEPT !.heap = r.heap, !.Edges = r.Edges,
                              !.errs = IF r.err # Nil THEN Append(@, r.err) ELSE @],
                   from, Tail(refs))

\* resolveReferences(ir, comp) and the append of its errors.
resolveReferences(st, c) == addEdges(st, c, referencesOf(st.heap[c]))

\* linkUsecasesToOperations attaching the binding although the contract
\* does not document the operation.
linkBindingUndocumented(st, c, b) ==
  LET comp    == st.heap[c]
      binding == [ServerID |-> b.serverID, Method |-> b.method, Path |-> b.path,
                  Operation |-> Nil]
      l       == Lookup(st.Symbols, b.serverID)
  IN
  IF ~l.ok
  THEN [st EXCEPT !.errs = Append(@, [err |-> "server_not_found", comp |-> comp.ID,
                                      server |-> b.serverID])]
  ELSE IF l.sym.Kind # KindHTTPServer
  THEN [st EXCEPT !.errs = Append(@, [err |-> "not_http_server", comp |-> comp.ID,
                                      server |-> b.serverID])]
  ELSE LET serverComp == st.heap[l.sym.Component] IN
       IF serverComp.HTTPServer = Nil \/ serverComp.HTTPServer.ParsedOpenAPI = Nil
       THEN [st EXCEPT !.heap[c].Usecase.Binding = binding]
       ELSE LET opKey == OperationKey(b.method, b.path)
                ops   == serverComp.HTTPServer.ParsedOpenAPI.Operations
            IN IF opKey \notin DOMAIN ops
               THEN [st EXCEPT !.heap[c].Usecase.Binding = binding]
               ELSE [st EXCEPT !.heap[c].Usecase.Binding =
                       [binding EXCEPT !.Operation = ops[opKey]]]

\* linkUsecasesToOperations after ParseBinding succeeded with b.
linkBinding(st, c, b) ==
  LET comp    == st.heap[c]
      binding == [ServerID |-> b.serverID, Method |-> b.method, Path |-> b.path,
                  Operation |-> Nil]
      l       == Lookup(st.Symbols, b.serverID)
  IN
  IF ~l.ok
  THEN [st EXCEPT !.errs = Append(@, [err |-> "server_not_found", comp |-> comp.ID,
                                      server |-> b.serverID])]
  ELSE IF l.sym.Kind # KindHTTPServer
  THEN [st EXCEPT !.errs = Append(@, [err |-> "not_http_server", comp |-> comp.ID,
                                      server |-> b.serverID])]
  ELSE LET serverComp == st.heap[l.sym.Component] IN
       IF serverComp.HTTPServer = Nil \/ serverComp.HTTPServer.ParsedOpenAPI = Nil
       THEN [st EXCEPT !.heap[c].Usecase.Binding = binding]
       ELSE LET opKey == OperationKey(b.method, b.path)
                ops   == serverComp.HTTPServer.ParsedOpenAPI.Operations
            IN IF opKey \notin DOMAIN ops
               THEN [st EXCEPT !.errs =
                       Append(@, [err |-> "operation_not_found", comp |-> comp.ID,
                                  op |-> opKey, server |-> b.serverID])]
               ELSE [st EXCEPT !.heap[c].Usecase.Binding =
                       [binding EXCEPT !.Operation = ops[opKey]]]

\* linkUsecasesToOperations, one iteration of its loop.
linkUsecaseBody(st, c) ==
  LET comp == st.heap[c] IN
  IF comp.Kind # KindUsecase \/ comp.Usecase = Nil THEN st
  ELSE IF comp.Usecase.BindsTo = <<>> THEN st
  ELSE LET b == ParseBinding(comp.Usecase.BindsTo) IN
       IF b.err # Nil
       THEN [st EXCEPT !.errs = Append(@, [err |-> "invalid_binds_to", comp |-> comp.ID,
                                           cause |-> b.err.cause])]
       ELSE linkBinding(st, c, b)

RECURSIVE phase1From(_, _, _)
\* Phase 1 over comps[k..].
phase1From(st, comps, k) ==
  IF k > Len(comps) THEN st
  ELSE phase1From(phase1Body(st, comps[k], k), comps, k + 1)


RECURSIVE forEach(_, _, _, _)
\* One loop of Build over ir.Components, ranged over in the order ptrs.
forEach(phase, st, ptrs, k) ==
  IF k > Len(ptrs) THEN st
  ELSE forEach(phase,
               CASE phase = 2 -> parseOpenAPIBody(st, ptrs[k])
                 [] phase = 3 -> resolveReferences(st, ptrs[k])
                 [] phase = 4 -> linkUsecaseBody(st, ptrs[k]),
               ptrs, k + 1)

\* Build(comps) when every range over ir.Components takes the components
\* in the order of the list.
BuildInOrder(comps) ==
  LET st1  == phase1From(NewIR, comps, 1)
      ptrs == [k \in 1..Len(comps) |-> k]
  IN IF phase1Failed(st1.errs) THEN st1
     ELSE forEach(4, forEach(3, forEach(2, st1, ptrs, 1), ptrs, 1), ptrs, 1)

(***************************************************************************)
(* Validate (validate.go).  A ValidationError is [ID, Message], with the   *)
(* message held as [fmt, args], its text and the arguments of Sprintf.     *)
(***************************************************************************)
ValidationError(id, message) == [ID |-> id, Message |-> message]

\* A message without arguments.
Msg(text) == [fmt |-> text, args |-> <<>>]

BetterAuth == <<"b", "e", "t", "t", "e", "r", "-", "a", "u", "t", "h">>
Casbin     == <<"c", "a", "s", "b", "i", "n">>
Drizzle    == <<"d", "r", "i", "z", "z", "l", "e">>

\* formatCycle: the IDs of the cycle and its first ID again.
formatCycle(cycle) ==
  IF Len(cycle) = 0 THEN <<>> ELSE Append(cycle, cycle[1])

\* The ValidationErrors Validate makes of the cycles DetectCycles returned.
cycleErrors(cs) ==
  [k \in 1..Len(cs) |->
     ValidationError(<<>>, [fmt |-> "dependency cycle: %s",
                            args |-> <<formatCycle(cs[k])>>])]

RECURSIVE middlewareRefErrorsAnyKind(_, _, _)
\* The loop over the middleware list reporting every resolved entry.
middlewareRefErrorsAnyKind(symbols, id, refs) ==
  IF refs = <<>> THEN <<>>
  ELSE LET l == Lookup(symbols, Head(refs)) IN
       (IF l.ok
        THEN <<ValidationError(id,
                 [fmt  |-> "middleware reference %q points to %s, expected middleware",
                  args |-> <<Head(refs), l.sym.Kind>>])>>
        ELSE <<>>)
       \o middlewareRefErrorsAnyKind(symbols, id, Tail(refs))

RECURSIVE middlewareRefErrors(_, _, _)
\* "for _, ref := range s.Middleware": one error for each entry that
\* resolves to a symbol of another kind than middleware.
middlewareRefErrors(symbols, id, refs) ==
  IF refs = <<>> THEN <<>>
  ELSE LET l == Lookup(symbols, Head(refs)) IN
       (IF l.ok /\ l.sym.Kind # KindMiddleware
        THEN <<ValidationError(id,
                 [fmt  |-> "middleware reference %q points to %s, expected middleware",
                  args |-> <<Head(refs), l.sym.Kind>>])>>
        ELSE <<>>)
       \o middlewareRefErrors(symbols, id, Tail(refs))

\* validateHTTPServer with the range test "s.Port <= 0 || s.Port > 65535".
validateHTTPServerZeroOutOfRange(symbols, comp) ==
  LET s == comp.HTTPServer IN
  IF s = Nil THEN <<ValidationError(comp.ID, Msg("missing http.server spec"))>>
  ELSE (IF s.Framework = <<>>
        THEN <<ValidationError(comp.ID, Msg("missing required field: framework"))>>
        ELSE <<>>)
       \o (IF s.Port = 0
           THEN <<ValidationError(comp.ID, Msg("missing required field: port"))>>
           ELSE <<>>)
       \o (IF s.Port <= 0 \/ s.Port > 65535
           THEN <<ValidationError(comp.ID, Msg("port must be between 1 and 65535"))>>
           ELSE <<>>)
       \o middlewareRefErrors(symbols, comp.ID, s.Middleware.elems)

validateHTTPServer(symbols, comp) ==
  LET s == comp.HTTPServer IN
  IF s = Nil THEN <<ValidationError(comp.ID, Msg("missing http.server spec"))>>
  ELSE (IF s.Framework = <<>>
        THEN <<ValidationError(comp.ID, Msg("missing required field: framework"))>>
        ELSE <<>>)
       \o (IF s.Port = 0
           THEN <<ValidationError(comp.ID, Msg("missing required field: port"))>>
           ELSE <<>>)
       \o (IF s.Port < 0 \/ s.Port > 65535
           THEN <<ValidationError(comp.ID, Msg("port must be between 1 and 65535"))>>
           ELSE <<>>)
       \o middlewareRefErrors(symbols, comp.ID, s.Middleware.elems)

\* validateMiddleware testing the policy only when the model is present.
validateMiddlewareFirstMissing(comp) ==
  LET s == comp.Middleware IN
  IF s = Nil THEN <<ValidationError(comp.ID, Msg("missing middleware spec"))>>
  ELSE (IF s.Provider = <<>>
        THEN <<ValidationError(comp.ID, Msg("missing required field: provider"))>>
        ELSE <<>>)
       \o (CASE s.Provider = BetterAuth ->
                  IF s.Config = <<>>
                  THEN <<ValidationError(comp.ID, Msg("better-auth provider requires config field"))>>
                  ELSE <<>>
             [] s.Provider = Casbin ->
                  IF s.Model = <<>>
                  THEN <<ValidationError(comp.ID, Msg("casbin provider requires model field"))>>
                  ELSE IF s.Policy = <<>>
                  THEN <<ValidationError(comp.ID, Msg("casbin provider requires policy field"))>>
                  ELSE <<>>
             [] OTHER -> <<>>)

validateMiddleware(comp) ==
  LET s == comp.Middleware IN
  IF s = Nil THEN <<ValidationError(comp.ID, Msg("missing middleware spec"))>>
  ELSE (IF s.Provider = <<>>
        THEN <<ValidationError(comp.ID, Msg("missing required field: provider"))>>
        ELSE <<>>)
       \o (CASE s.Provider = BetterAuth ->
                  IF s.Config = <<>>
                  THEN <<ValidationError(comp.ID, Msg("better-auth provider requires config field"))>>
                  ELSE <<>>
             [] s.Provider = Casbin ->
                  (IF s.Model = <<>>
                   THEN <<ValidationError(comp.ID, Msg("casbin provider requires model field"))>>
                   ELSE <<>>)
                  \o (IF s.Policy = <<>>
                      THEN <<ValidationError(comp.ID, Msg("casbin provider requires policy field"))>>
                      ELSE <<>>)
             [] OTHER -> <<>>)

validatePostgres(comp) ==
  LET s == comp.Postgres IN
  IF s = Nil THEN <<ValidationError(comp.ID, Msg("missing postgres spec"))>>
  ELSE (IF s.Provider = <<>>
        THEN <<ValidationError(comp.ID, Msg("missing required field: provider"))>>
        ELSE <<>>)
       \o (IF s.Schema = <<>>
           THEN <<ValidationError(comp.ID, Msg("missing required field: schema"))>>
           ELSE <<>>)

\* validateBindsTo: nil, or the error of the first test that fails.
\* strings.SplitN(bindsTo, ":", 3) cuts at the first two colons.
validateBindsTo(bindsTo) ==
  LET c1   == Index(bindsTo, Colon)
      rest == SubSeq(bindsTo, c1 + 1, Len(bindsTo))
      c2   == Index(rest, Colon)
  IN IF c1 = 0 \/ c2 = 0
     THEN [fmt  |-> "binds_to must be in format server-id:METHOD:/path, got %q",
           args |-> <<bindsTo>>]
     ELSE LET method == SubSeq(rest, 1, c2 - 1)
              p      == SubSeq(rest, c2 + 1, Len(rest))
          IN IF method \notin {GET, POST, PUT, PATCH, DELETE, HEAD, OPTIONS}
             THEN [fmt |-> "invalid HTTP method %q in binds_to", args |-> <<method>>]
             ELSE IF ~HasPrefix(p, Slash)
             THEN [fmt |-> "path in binds_to must start with /, got %q", args |-> <<p>>]
             ELSE Nil

\* validateUsecase taking binds_to as an optional field.
validateUsecaseUnbound(symbols, comp) ==
  LET s == comp.Usecase IN
  IF s = Nil THEN <<ValidationError(comp.ID, Msg("missing usecase spec"))>>
  ELSE (IF s.Goal = <<>>
        THEN <<ValidationError(comp.ID, Msg("missing required field: goal"))>>
        ELSE <<>>)
       \o middlewareRefErrors(symbols, comp.ID, s.Middleware.elems)

validateUsecase(symbols, comp) ==
  LET s == comp.Usecase IN
  IF s = Nil THEN <<ValidationError(comp.ID, Msg("missing usecase spec"))>>
  ELSE (IF s.BindsTo = <<>>
        THEN <<ValidationError(comp.ID, Msg("missing required field: binds_to"))>>
        ELSE (IF validateBindsTo(s.BindsTo) # Nil
              THEN <<ValidationError(comp.ID, validateBindsTo(s.BindsTo))>>
              ELSE <<>>)
             \o (LET serverID == extractServerFromBinding(s.BindsTo)
                     l        == Lookup(symbols, serverID)
                 IN IF serverID # <<>> /\ l.ok /\ l.sym.Kind # KindHTTPServer
                    THEN <<ValidationError(comp.ID,
                             [fmt  |-> "binds_to references %q which is %s, expected http.server",
                              args |-> <<serverID, l.sym.Kind>>])>>
                    ELSE <<>>))
       \o (IF s.Goal = <<>>
           THEN <<ValidationError(comp.ID, Msg("missing required field: goal"))>>
           ELSE <<>>)
       \o middlewareRefErrors(symbols, comp.ID, s.Middleware.elems)

validateComponent(symbols, comp) ==
  CASE comp.Kind = KindHTTPServer -> validateHTTPServer(symbols, comp)
    [] comp.Kind = KindMiddleware -> validateMiddleware(comp)
    [] comp.Kind = KindPostgres   -> validatePostgres(comp)
    [] comp.Kind = KindUsecase    -> validateUsecase(symbols, comp)
    [] OTHER -> <<>>

\* validateBetterAuthRequirements enforcing the requirements whenever a
\* better-auth middleware is declared.
validateBetterAuthRequirementsIfDeclared(h, components) ==
  LET comps == {h[components[id]] : id \in DOMAIN components}
      betterAuthSet ==
        {c.ID : c \in {x \in comps : x.Kind = KindMiddleware /\ x.Middleware # Nil
                                       /\ x.Middleware.Provider = BetterAuth}}
      hasServer  == \E c \in comps : c.Kind = KindHTTPServer /\ c.HTTPServer # Nil
      hasDrizzle == \E c \in comps : c.Kind = KindPostgres /\ c.Postgres # Nil
                                       /\ c.Postgres.Provider = Drizzle
  IN IF betterAuthSet = {} THEN <<>>
     ELSE (IF ~hasServer
           THEN <<ValidationError(<<>>,
                    Msg("better-auth middleware requires at least one http.server component"))>>
           ELSE <<>>)
          \o (IF ~hasDrizzle
              THEN <<ValidationError(<<>>,
                       Msg("better-auth middleware requires a postgres component with provider \"drizzle\""))>>
              ELSE <<>>)

\* validateBetterAuthRequirements.  Its three ranges over ir.Components
\* compute a set and two flags, the same in every iteration order.
validateBetterAuthRequirements(h, components) ==
  LET comps == {h[components[id]] : id \in DOMAIN components}
      betterAuthSet ==
        {c.ID : c \in {x \in comps : x.Kind = KindMiddleware /\ x.Middleware # Nil
                                       /\ x.Middleware.Provider = BetterAuth}}
      required ==
        \E c \in comps :
          \/ /\ c.Kind = KindHTTPServer /\ c.HTTPServer # Nil
             /\ \E k \in 1..Len(c.HTTPServer.Middleware.elems) :
                  c.HTTPServer.Middleware.elems[k] \in betterAuthSet
          \/ /\ c.Kind = KindUsecase /\ c.Usecase # Nil
             /\ \E k \in 1..Len(c.Usecase.Middleware.elems) :
                  c.Usecase.Middleware.elems[k] \in betterAuthSet
      hasServer  == \E c \in comps : c.Kind = KindHTTPServer /\ c.HTTPServer # Nil
      hasDrizzle == \E c \in comps : c.Kind = KindPostgres /\ c.Postgres # Nil
                                       /\ c.Postgres.Provider = Drizzle
  IN IF betterAuthSet = {} THEN <<>>
     ELSE IF ~required THEN <<>>
     ELSE (IF ~hasServer
           THEN <<ValidationError(<<>>,
                    Msg("better-auth middleware requires at least one http.server component"))>>
           ELSE <<>>)
          \o (IF ~hasDrizzle
              THEN <<ValidationError(<<>>,
                       Msg("better-auth middleware requires a postgres component with provider \"drizzle\""))>>
              ELSE <<>>)

(***************************************************************************)
(* Semantic hashes (cache/cache.go).  The JSON that json.Marshal writes is *)
(* held as a value: an object is a record (Marshal sorts the keys of a     *)
(* map), an array a Slice, null a NilSlice.  sha256 and hex are held as    *)
(* the tag Sum256 around the bytes hashed, so two hashes are equal exactly *)
(* when the marshalled documents are.                                      *)
(***************************************************************************)
\* The byte of a one-character string; the inputs use lower-case letters.
Byte(c) == CHOOSE k \in 1..Len(Letters) : Letters[k] = c

\* s < t for Go strings: byte-wise, a proper prefix first.
StringLess(s, t) ==
  \E k \in 1..(Len(t)) :
    /\ \A j \in 1..(k - 1) : j <= Len(s) /\ s[j] = t[j]
    /\ \/ k = Len(s) + 1
       \/ k <= Len(s) /\ Byte(s[k]) < Byte(t[k])

RECURSIVE insertLess(_, _, _)
\* The inner loop of insertion sort: x, appended to the sorted list s, moves
\* left while less(x, the element before it).  by names the less function:
\* "id" for components[i]["id"] < components[j]["id"], "string" for the
\* order of sort.Strings.
insertLess(by, s, x) ==
  LET y == s[Len(s)]
      less == IF by = "id" THEN StringLess(x.id, y.id) ELSE StringLess(x, y)
  IN IF s = <<>> THEN <<x>>
     ELSE IF less
          THEN Append(insertLess(by, SubSeq(s, 1, Len(s) - 1), x), y)
          ELSE Append(s, x)

RECURSIVE insertionSort(_, _)
\* sort.Slice and sort.Strings on a short slice (under 13 items both sort by
\* insertion).
insertionSort(by, s) ==
  IF s = <<>> THEN <<>>
  ELSE insertLess(by, insertionSort(by, SubSeq(s, 1, Len(s) - 1)), s[Len(s)])

Sum256(data) == [sha256 |-> data]

\* ComputeSpecHash of ir.New(sp): version, name, description and the
\* (id, kind) pairs sorted by "components[i][id] < components[j][id]".
ComputeSpecHash(sp) ==
  LET components == [k \in 1..Len(sp.Components) |->
                       [id |-> sp.Components[k].ID, kind |-> sp.Components[k].Kind]]
  IN Sum256([version     |-> sp.Version,
             name        |-> sp.Name,
             description |-> sp.Description,
             components  |-> Slice(insertionSort("id", components))])

\* sortedCopy returning nil for an empty slice as for a nil one.
sortedCopyNilWhenEmpty(slice) ==
  IF slice.nil \/ Len(slice.elems) = 0 THEN [copied |-> NilSlice, slice |-> slice]
  ELSE [copied |-> Slice(insertionSort("string", slice.elems)), slice |-> slice]

\* sortedCopy without the sort.
sortedCopyUnsorted(slice) ==
  IF slice.nil THEN [copied |-> NilSlice, slice |-> slice]
  ELSE [copied |-> Slice(slice.elems), slice |-> slice]

\* sortedCopy: the slice it returns and the argument slice as the call
\* leaves it.
sortedCopy(slice) ==
  IF slice.nil THEN [copied |-> NilSlice, slice |-> slice]
  ELSE IF Len(slice.elems) = 0 THEN [copied |-> Slice(<<>>), slice |-> slice]
  ELSE [copied |-> Slice(insertionSort("string", slice.elems)), slice |-> slice]

\* ComputeComponentHash: the hash, and the component as the call leaves it.
ComputeComponentHash(comp) ==
  LET id == [id |-> comp.ID, kind |-> comp.Kind] IN
  CASE comp.Kind = KindHTTPServer /\ comp.HTTPServer # Nil ->
         LET mw == sortedCopy(comp.HTTPServer.Middleware)
             dp == sortedCopy(comp.HTTPServer.DependsOn)
         IN [hash |-> Sum256([id |-> comp.ID, kind |-> comp.Kind,
                              spec |-> [framework  |-> comp.HTTPServer.Framework,
                                        port       |-> comp.HTTPServer.Port,
                                        openapi    |-> comp.HTTPServer.OpenAPI,
                                        middleware |-> mw.copied,
                                        depends_on |-> dp.copied]]),
             comp |-> [comp EXCEPT !.HTTPServer.Middleware = mw.slice,
                                   !.HTTPServer.DependsOn = dp.slice]]
    [] comp.Kind = KindMiddleware /\ comp.Middleware # Nil ->
         LET dp == sortedCopy(comp.Middleware.DependsOn)
         IN [hash |-> Sum256([id |-> comp.ID, kind |-> comp.Kind,
                              spec |-> [provider   |-> comp.Middleware.Provider,
                                        config     |-> comp.Middleware.Config,
                                        model      |-> comp.Middleware.Model,
                                        policy     |-> comp.Middleware.Policy,
                                        depends_on |-> dp.copied]]),
             comp |-> [comp EXCEPT !.Middleware.DependsOn = dp.slice]]
    [] comp.Kind = KindPostgres /\ comp.Postgres # Nil ->
         [hash |-> Sum256([id |-> comp.ID, kind |-> comp.Kind,
                           spec |-> [provider |-> comp.Postgres.Provider,
                                     schema   |-> comp.Postgres.Schema]]),
          comp |-> comp]
    [] comp.Kind = KindUsecase /\ comp.Usecase # Nil ->
         LET mw == sortedCopy(comp.Usecase.Middleware)
             pr == sortedCopy(comp.Usecase.Preconditions)
             ac == sortedCopy(comp.Usecase.AcceptanceCriteria)
             po == sortedCopy(comp.Usecase.Postconditions)
         IN [hash |-> Sum256([id |-> comp.ID, kind |-> comp.Kind,
                              spec |-> [binds_to            |-> comp.Usecase.BindsTo,
                                        middleware          |-> mw.copied,
                                        goal                |-> comp.Usecase.Goal,
                                        actor               |-> comp.Usecase.Actor,
                                        preconditions       |-> pr.copied,
                                        acceptance_criteria |-> ac.copied,
                                        postconditions      |-> po.copied]]),
             comp |-> [comp EXCEPT !.Usecase.Middleware = mw.slice,
                                   !.Usecase.Preconditions = pr.slice,
                                   !.Usecase.AcceptanceCriteria = ac.slice,
                                   !.Usecase.Postconditions = po.slice]]
    [] OTHER -> [hash |-> Sum256(id), comp |-> comp]

(***************************************************************************)
(* The cache file (cache/cache.go).  A file is NoFile, IsDirectory,        *)
(* InvalidJSON, or a JSON value [type, val]; an object's val is a map from *)
(* keys to JSON values.  A Go string that may hold a hex digest is held as *)
(* Text(s) or as a Sum256 value.                                           *)
(***************************************************************************)
CurrentCacheVersion == <<"1", ".", "0">>

NoFile      == [file |-> "does not exist"]
IsDirectory == [file |-> "is a directory"]
InvalidJSON == [file |-> "not valid JSON"]

Text(s)     == [text |-> s]
JSONNull    == [type |-> "null", val |-> <<>>]
JSONObject(m) == [type |-> "object", val |-> m]

\* cache.New()
NewCache ==
  [Version |-> CurrentCacheVersion, SpecHash |-> Text(<<>>), Components |-> EmptyMap]

\* The *json.UnmarshalTypeError json.Unmarshal returns.  It names the first
\* offending value in document order, which an object held as a map does
\* not have, so the error is held without the name.
UnmarshalTypeError == [err |-> "json: cannot unmarshal"]

\* The folding of a key under which encoding/json matches it with a struct
\* field's name when no field has the key's exact name, on the spellings
\* the cache files use.
foldName(k) ==
  CASE k \in {"cache_version", "CACHE_VERSION", "Cache_Version"} -> "CACHE_VERSION"
    [] k \in {"specHash", "spechash", "SPECHASH"} -> "SPECHASH"
    [] k \in {"components", "Components"} -> "COMPONENTS"
    [] k \in {"hash", "Hash"} -> "HASH"
    [] k \in {"artifacts", "ARTIFACTS"} -> "ARTIFACTS"
    [] OTHER -> k

\* The value json.Unmarshal decodes into the struct field tagged name: that
\* of the object's key matching name, null when no key does (a field with
\* no key and a field given null are both left as they are).  An object
\* holds at most one key matching a field.
fieldValue(doc, name) ==
  LET keys == {k \in DOMAIN doc : k = name \/ foldName(k) = foldName(name)}
  IN IF keys = {} THEN JSONNull ELSE doc[CHOOSE k \in keys : TRUE]

\* json.Unmarshal of the value v into a string field holding zero: null
\* leaves the field, a string sets it, anything else is a type error.
unmarshalString(v, zero) ==
  IF v.type = "null" THEN [val |-> zero, err |-> Nil]
  ELSE IF v.type = "string" THEN [val |-> v.val, err |-> Nil]
  ELSE [val |-> zero, err |-> UnmarshalTypeError]

\* json.Unmarshal of the value v into a nil []string: null leaves it nil, an
\* array gives a slice of its items, each decoded into a string ("" for
\* null); anything else, and an item of another type, is a type error.
unmarshalStrings(v) ==
  IF v.type = "null" THEN [val |-> NilSlice, err |-> Nil]
  ELSE IF v.type # "[]interface{}" THEN [val |-> NilSlice, err |-> UnmarshalTypeError]
  ELSE LET items == [k \in 1..Len(v.val) |-> unmarshalString(v.val[k], <<>>)]
       IN [val |-> Slice([k \in 1..Len(items) |-> items[k].val]),
           err |-> IF \E k \in 1..Len(items) : items[k].err # Nil
                   THEN UnmarshalTypeError ELSE Nil]

\* json.Unmarshal of the value v into a *Component: null gives a nil
\* pointer, an object a Component with its fields decoded, anything else a
\* type error.
unmarshalComponent(v) ==
  IF v.type = "null" THEN [val |-> Nil, err |-> Nil]
  ELSE IF v.type # "object" THEN [val |-> Nil, err |-> UnmarshalTypeError]
  ELSE LET hash      == unmarshalString(fieldValue(v.val, "hash"), Text(<<>>))
           artifacts == unmarshalStrings(fieldValue(v.val, "artifacts"))
       IN [val |-> [Hash |-> hash.val, Artifacts |-> artifacts.val],
           err |-> IF hash.err # Nil THEN hash.err ELSE artifacts.err]

\* json.Unmarshal of the value v into a nil map[string]*Component.
unmarshalComponents(v) ==
  IF v.type = "null" THEN [val |-> Nil, err |-> Nil]
  ELSE IF v.type # "object" THEN [val |-> Nil, err |-> UnmarshalTypeError]
  ELSE LET entries == [id \in DOMAIN v.val |-> unmarshalComponent(v.val[id])]
       IN [val |-> [id \in DOMAIN entries |-> entries[id].val],
           err |-> IF \E id \in DOMAIN entries : entries[id].err # Nil
                   THEN UnmarshalTypeError ELSE Nil]

\* json.Unmarshal(data, &cache) on a zero Cache: (cache, err); Components is
\* Nil for a nil map.  A null document leaves the zero Cache.  cache is Nil
\* when err is set: Load does not use the value then.
Unmarshal(data) ==
  LET doc     == IF data.type = "object" THEN data.val ELSE EmptyMap
      version == unmarshalString(fieldValue(doc, "cache_version"), <<>>)
      hash    == unmarshalString(fieldValue(doc, "specHash"), Text(<<>>))
      comps   == unmarshalComponents(fieldValue(doc, "components"))
  IN IF data.type \notin {"null", "object"}
        \/ version.err # Nil \/ hash.err # Nil \/ comps.err # Nil
     THEN [cache |-> Nil, err |-> UnmarshalTypeError]
     ELSE [cache |-> [Version |-> version.val, SpecHash |-> hash.val,
                      Components |-> comps.val],
           err |-> Nil]

\* json.MarshalIndent(c, "", "  ") of a *Component.
marshalComponent(comp) ==
  IF comp = Nil THEN JSONNull
  ELSE JSONObject([hash |-> StrVal(comp.Hash),
                   artifacts |-> IF comp.Artifacts.nil THEN JSONNull
                                 ELSE ListVal([k \in 1..Len(comp.Artifacts.elems) |->
                                                 StrVal(comp.Artifacts.elems[k])])])

\* json.MarshalIndent(c, "", "  "): the document written for the cache c (of
\* strings that are valid UTF-8, which are written as they are).  It
\* returns no error on a Cache.
Marshal(c) ==
  JSONObject([cache_version |-> StrVal(c.Version),
              specHash |-> StrVal(c.SpecHash),
              components |-> IF c.Components = Nil THEN JSONNull
                             ELSE JSONObject([id \in DOMAIN c.Components |->
                                                marshalComponent(c.Components[id])])])

\* Cache.Save(path) on the file system state file of path: (file, err).
\* fault is the call the file system refuses: "mkdir" (os.MkdirAll),
\* "open" (os.WriteFile fails before it has truncated the file), "write"
\* (os.WriteFile fails after it has, leaving part of the document), or
\* "none".  A path that is a directory cannot be opened for writing.
Save(c, file, fault) ==
  IF fault = "mkdir"
  THEN [file |-> file, err |-> [err |-> "failed to create cache directory"]]
  ELSE IF fault = "open" \/ file = IsDirectory
  THEN [file |-> file, err |-> [err |-> "failed to write cache"]]
  ELSE IF fault = "write"
  THEN [file |-> InvalidJSON, err |-> [err |-> "failed to write cache"]]
  ELSE [file |-> Marshal(c), err |-> Nil]

\* migrateCache that keeps a cache of any version.
migrateCacheKeepAll(cache) == cache

\* migrateCache
migrateCache(cache) ==
  IF cache.Version = <<>> THEN NewCache
  ELSE IF cache.Version = CurrentCacheVersion THEN cache
  ELSE NewCache

\* Load: (cache, err), cache Nil when an error is returned.
Load(file) ==
  IF file = NoFile THEN [cache |-> NewCache, err |-> Nil]
  ELSE IF file = IsDirectory
  THEN [cache |-> Nil, err |-> [err |-> "failed to read cache"]]
  ELSE IF file = InvalidJSON
  THEN [cache |-> Nil, err |-> [err |-> "failed to parse cache"]]
  ELSE LET u == Unmarshal(file) IN
       IF u.err # Nil THEN [cache |-> Nil, err |-> [err |-> "failed to parse cache"]]
       ELSE LET migrated == migrateCache(u.cache)
            IN [cache |-> IF migrated.Components = Nil
                          THEN [migrated EXCEPT !.Components = EmptyMap]
                          ELSE migrated,
                err |-> Nil]

\* Update leaving the entries the cache already has.
UpdateKeepOld(c, sp, ir) ==
  [c EXCEPT !.SpecHash = ComputeSpecHash(sp),
            !.Components =
               [id \in DOMAIN c.Components \cup DOMAIN ir.Components |->
                  IF id \in DOMAIN ir.Components
                  THEN [Hash |-> ComputeComponentHash(ir.heap[ir.Components[id]]).hash,
                        Artifacts |-> Slice(<<>>)]
                  ELSE c.Components[id]]]

\* Cache.Update(irData), irData being ir with ir.Spec = sp: the cache as the
\* call leaves it (no hash computation fails on these values).
Update(c, sp, ir) ==
  [c EXCEPT !.SpecHash = ComputeSpecHash(sp),
            !.Components =
               [id \in DOMAIN ir.Components |->
                  [Hash |-> ComputeComponentHash(ir.heap[ir.Components[id]]).hash,
                   Artifacts |-> Slice(<<>>)]]]

\* Cache.SetArtifacts on a cache whose entry componentID, if there is one,
\* is not a nil pointer.
SetArtifacts(c, componentID, artifacts) ==
  IF componentID \in DOMAIN c.Components
  THEN [c EXCEPT !.Components[componentID].Artifacts = artifacts]
  ELSE c

(***************************************************************************)
(* The artifact planner (codegen/planner.go) and the compile pipeline      *)
(* (pipeline/pipeline.go, pipeline/stages.go).                             *)
(***************************************************************************)
\* Add in which the last generator to claim a path wins.
AddOverwrite(byPath, owner, p, content, componentID) ==
  IF p = <<>>
  THEN [byPath |-> byPath, err |-> [err |-> "artifact path cannot be empty"]]
  ELSE [byPath |-> Put(byPath, p, [Owner |-> owner, Path |-> p,
                                   Content |-> content,
                                   ComponentID |-> componentID]),
        err |-> Nil]

\* ArtifactPlanner.Add: (byPath, err).
Add(byPath, owner, p, content, componentID) ==
  IF p = <<>>
  THEN [byPath |-> byPath, err |-> [err |-> "artifact path cannot be empty"]]
  ELSE IF p \in DOMAIN byPath
  THEN [byPath |-> byPath,
        err |-> [err |-> "artifact path conflict", Path |-> p,
                 ExistingOwner |-> byPath[p].Owner, IncomingOwner |-> owner]]
  ELSE [byPath |-> Put(byPath, p, [Owner |-> owner, Path |-> p,
                                      Content |-> content,
                                      ComponentID |-> componentID]),
        err |-> Nil]

RECURSIVE SortedKeys(_)
\* The keys of a map, ranged over and then sorted with sort.Strings.
SortedKeys(keys) ==
  IF keys = {} THEN <<>>
  ELSE LET x == CHOOSE y \in keys : TRUE
       IN insertLess("string", SortedKeys(keys \ {x}), x)

RECURSIVE addPaths(_, _, _, _)
\* The loop of AddOutput over the sorted paths, stopping at the first error.
addPaths(byPath, owner, files, paths) ==
  IF paths = <<>> THEN [byPath |-> byPath, err |-> Nil]
  ELSE LET r == Add(byPath, owner, Head(paths), files[Head(paths)].Content,
                    files[Head(paths)].ComponentID)
       IN IF r.err # Nil THEN r ELSE addPaths(r.byPath, owner, files, Tail(paths))

\* ArtifactPlanner.AddOutput: (byPath, err).
AddOutput(byPath, owner, output) ==
  IF output = Nil
  THEN [byPath |-> byPath, err |-> [err |-> "generator returned nil output"]]
  ELSE addPaths(byPath, owner, output.Files, SortedKeys(DOMAIN output.Files))

\* ArtifactPlanner.Artifacts: the planned artifacts sorted by path.
Artifacts(byPath) ==
  LET paths == SortedKeys(DOMAIN byPath)
  IN [k \in 1..Len(paths) |-> byPath[paths[k]]]

RECURSIVE detectCyclesFrom(_, _, _, _)
\* DetectCycles ranging over the components in the order ptrs.
detectCyclesFrom(h, ptrs, k, st) ==
  IF k > Len(ptrs) THEN st.cycles
  ELSE IF h[ptrs[k]].ID \in st.visited THEN detectCyclesFrom(h, ptrs, k + 1, st)
  ELSE detectCyclesFrom(h, ptrs, k + 1, dfs(h, ptrs[k], st).st)

RECURSIVE validateFrom(_, _, _)
\* The loop of Validate over the components in the order ptrs.
validateFrom(st, ptrs, k) ==
  IF k > Len(ptrs) THEN <<>>
  ELSE validateComponent(st.Symbols, st.heap[ptrs[k]]) \o validateFrom(st, ptrs, k + 1)

\* Validate on the IR st when every range over ir.Components takes the
\* components in the order of their creation.
ValidateInOrder(st) ==
  LET ptrSet == {st.Components[id] : id \in DOMAIN st.Components}
      ptrs == [k \in 1..Cardinality(ptrSet) |->
                 CHOOSE c \in ptrSet : Cardinality({d \in ptrSet : d < c}) = k - 1]
  IN cycleErrors(detectCyclesFrom(st.heap, ptrs, 1,
                   [visited |-> {}, inStack |-> {}, path |-> <<>>, cycles |-> <<>>]))
     \o validateFrom(st, ptrs, 1)
     \o validateBetterAuthRequirements(st.heap, st.Components)

RECURSIVE cleanFrom(_, _, _)
\* filepath.Clean on the elements segs of a path, rooted or not: "." is
\* dropped, ".." removes the element before it, is dropped at the root and
\* is kept at the start of a relative path.  out is the cleaned part.
cleanFrom(rooted, segs, out) ==
  IF segs = <<>> THEN out
  ELSE IF Head(segs) = "." THEN cleanFrom(rooted, Tail(segs), out)
  ELSE IF Head(segs) = ".."
       THEN IF out # <<>> /\ out[Len(out)] # ".."
            THEN cleanFrom(rooted, Tail(segs), SubSeq(out, 1, Len(out) - 1))
            ELSE IF rooted THEN cleanFrom(rooted, Tail(segs), out)
            ELSE cleanFrom(rooted, Tail(segs), Append(out, ".."))
  ELSE cleanFrom(rooted, Tail(segs), Append(out, Head(segs)))

\* filepath.Join(dir, p): dir is [rooted, segs], p the elements of a
\* relative path.
Join(dir, p) == [rooted |-> dir.rooted, segs |-> cleanFrom(dir.rooted, dir.segs \o p, <<>>)]

\* filepath.Dir of a cleaned path: the path without its last element ("/"
\* and "." are their own directories).
Dir(p) ==
  [rooted |-> p.rooted,
   segs |-> IF p.segs = <<>> THEN <<>> ELSE SubSeq(p.segs, 1, Len(p.segs) - 1)]

\* A file system: the regular files (path to content) and the directories
\* made so far.  "/", "." and the directories above "." are always there.
EmptyFS == [files |-> EmptyMap, dirs |-> {}]

IsDir(fs, p) == p \in fs.dirs \/ \A k \in 1..Len(p.segs) : p.segs[k] = ".."

RECURSIVE mkdirAllFrom(_, _, _, _)
\* os.MkdirAll(p, 0755), at the k-th element of p: (fs, err).  The
\* directories are made from the top down; a regular file in the way, and a
\* directory of denied (which the file system refuses to make), is an
\* error that leaves the directories made before it.
mkdirAllFrom(fs, p, k, denied) ==
  IF k > Len(p.segs) THEN [fs |-> fs, err |-> Nil]
  ELSE LET q == [rooted |-> p.rooted, segs |-> SubSeq(p.segs, 1, k)] IN
       IF IsDir(fs, q) THEN mkdirAllFrom(fs, p, k + 1, denied)
       ELSE IF q \in DOMAIN fs.files
       THEN [fs |-> fs, err |-> [err |-> "not a directory", Path |-> q]]
       ELSE IF q \in denied
       THEN [fs |-> fs, err |-> [err |-> "permission denied", Path |-> q]]
       ELSE mkdirAllFrom([fs EXCEPT !.dirs = @ \cup {q}], p, k + 1, denied)

\* os.WriteFile(p, content, 0644) in a directory that exists: (fs, err).
\* Opening fails on a directory and on a path of denied; on a path of short
\* the file is opened and truncated and the write then fails, which leaves
\* a part of the content.
WriteFile(fs, p, content, denied, short) ==
  IF IsDir(fs, p) THEN [fs |-> fs, err |-> [err |-> "is a directory", Path |-> p]]
  ELSE IF p \in denied THEN [fs |-> fs, err |-> [err |-> "permission denied", Path |-> p]]
  ELSE IF p \in short
  THEN [fs |-> [fs EXCEPT !.files = Put(@, p, [partOf |-> content])],
        err |-> [err |-> "no space left on device", Path |-> p]]
  ELSE [fs |-> [fs EXCEPT !.files = Put(@, p, content)], err |-> Nil]

\* One iteration of the loop of writeStage.Run: (fs, err), err being the
\* error Run returns from inside the loop.
writeArtifact(fs, outputDir, artifact, denied, short) ==
  LET fullPath == Join(outputDir, artifact.Path)
      dir      == Dir(fullPath)
      made     == mkdirAllFrom(fs, dir, 1, denied)
  IN IF made.err # Nil
     THEN [fs |-> made.fs,
           err |-> [err |-> "failed to create directory", dir |-> dir, cause |-> made.err]]
     ELSE LET written == WriteFile(made.fs, fullPath, artifact.Content, denied, short)
          IN IF written.err # Nil
             THEN [fs |-> written.fs,
                   err |-> [err |-> "failed to write file", file |-> fullPath,
                            cause |-> written.err]]
             ELSE [fs |-> written.fs, err |-> Nil]

\* The stages of the compile command, in the order pipeline.New is given.
CompileStages ==
  <<"parse", "validate-schema", "build-ir", "validate-ir", "generate", "write">>

\* An entry of the log of calls made during Pipeline.Run.
Called(name, arg, failed) == [call |-> name, arg |-> arg, failed |-> failed]

RECURSIVE runGenerators(_, _, _, _)
\* The loop of generateStage.Run over the generators from index k on:
\* (byPath, err, calls).
runGenerators(gens, k, byPath, calls) ==
  IF k > Len(gens) THEN [byPath |-> byPath, err |-> Nil, calls |-> calls]
  ELSE LET gen == gens[k] IN
       IF gen.Err
       THEN [byPath |-> byPath, err |-> [err |-> "generator failed", gen |-> gen.Name],
             calls |-> Append(calls, Called("Generate", gen.Name, TRUE))]
       ELSE LET r == AddOutput(byPath, gen.Name, gen.Output) IN
            IF r.err # Nil
            THEN [byPath |-> r.byPath,
                  err |-> [err |-> "artifact planning failed", gen |-> gen.Name],
                  calls |-> calls \o <<Called("Generate", gen.Name, FALSE),
                                       Called("AddOutput", gen.Name, TRUE)>>]
            ELSE runGenerators(gens, k + 1, r.byPath,
                               calls \o <<Called("Generate", gen.Name, FALSE),
                                          Called("AddOutput", gen.Name, FALSE)>>)

RECURSIVE writeArtifacts(_, _, _, _)
\* The loop of writeStage.Run from artifact k on, on a file system that
\* refuses the call fail.call ("MkdirAll" or "WriteFile") made for artifact
\* number fail.at and takes every other one: (err, calls).
writeArtifacts(artifacts, k, fail, calls) ==
  IF k > Len(artifacts) THEN [err |-> Nil, calls |-> calls]
  ELSE IF k = fail.at /\ fail.call = "MkdirAll"
  THEN [err |-> [err |-> "failed to create directory", file |-> artifacts[k].Path],
        calls |-> Append(calls, Called("MkdirAll", artifacts[k].Path, TRUE))]
  ELSE IF k = fail.at
  THEN [err |-> [err |-> "failed to write file", file |-> artifacts[k].Path],
        calls |-> calls \o <<Called("MkdirAll", artifacts[k].Path, FALSE),
                             Called("WriteFile", artifacts[k].Path, TRUE)>>]
  ELSE writeArtifacts(artifacts, k + 1, fail,
                      calls \o <<Called("MkdirAll", artifacts[k].Path, FALSE),
                                 Called("WriteFile", artifacts[k].Path, FALSE)>>)

\* Stage.Run of the stage called name, on the run's input in and the
\* context ctx = [IR, Artifacts]: (ctx, err, calls).
StageRun(name, in, ctx) ==
  CASE name = "parse" ->
         [ctx |-> ctx, calls |-> <<>>,
          err |-> IF in.ParseOK THEN Nil ELSE [err |-> "parse error"]]
    [] name = "validate-schema" ->
         [ctx |-> ctx, calls |-> <<>>,
          err |-> IF in.SchemaOK THEN Nil ELSE [err |-> "schema validation failed"]]
    [] name = "build-ir" ->
         LET typedIR == BuildInOrder(in.AST) IN
         IF Len(typedIR.errs) > 0
         THEN [ctx |-> ctx, calls |-> <<Called("Build", "ir", TRUE)>>,
               err |-> [err |-> "build failed"]]
         ELSE [ctx |-> [ctx EXCEPT !.IR = typedIR],
               calls |-> <<Called("Build", "ir", FALSE)>>, err |-> Nil]
    [] name = "validate-ir" ->
         IF Len(ValidateInOrder(ctx.IR)) > 0
         THEN [ctx |-> ctx, calls |-> <<Called("Validate", "ir", TRUE)>>,
               err |-> [err |-> "validation failed"]]
         ELSE [ctx |-> ctx, calls |-> <<Called("Validate", "ir", FALSE)>>,
               err |-> Nil]
    [] name = "generate" ->
         IF in.Registry # "ok"
         THEN [ctx |-> ctx, calls |-> <<>>, err |-> [err |-> in.Registry]]
         ELSE LET r == runGenerators(in.Generators, 1, EmptyMap, <<>>) IN
              IF r.err # Nil THEN [ctx |-> ctx, calls |-> r.calls, err |-> r.err]
              ELSE [ctx |-> [ctx EXCEPT !.Artifacts = Slice(Artifacts(r.byPath))],
                    calls |-> r.calls, err |-> Nil]
    [] name = "write" ->
         LET r == writeArtifacts(ctx.Artifacts.elems, 1, in.WriteFails, <<>>)
         IN [ctx |-> ctx, calls |-> r.calls, err |-> r.err]

\* Pipeline.Run going on to the next stage whatever the stage returned.
stageFailedNever(err) == FALSE

\* if err := s.Run(ctx); err != nil { return err }
stageFailed(err) == err # Nil

(***************************************************************************)
(* Inputs: the component lists Build is run on.                            *)
(***************************************************************************)
A == <<"a">>
B == <<"b">>
Z == <<"z">>       \* a name no component has
IDs == {A, B}

Strs(names) == ListVal([k \in 1..Len(names) |-> StrVal(names[k])])

PathU == <<Slash, "u">>
Bind(server, method, p) == server \o <<Colon>> \o method \o <<Colon>> \o p

\* binds_to values: well-formed ones, and one for each way of being malformed.
BindsToInputs ==
  { Bind(A, GET, PathU),                   \* documented by ContractOK
    Bind(A, PUT, PathU),                   \* well-formed, not documented
    Bind(Z, GET, PathU),                   \* no such server
    Bind(A, <<"g", "e", "t">>, PathU),     \* method not in the whitelist
    Bind(A, GET, <<"u">>),                 \* path without the leading '/'
    A,                                     \* no ':'
    A \o <<Colon>> \o GET,                 \* one ':'
    Bind(<<>>, GET, PathU),                \* empty server segment
    Bind(A, GET, PathU \o <<Colon, "v">>)  \* ':' inside the path
  }

Base == [framework |-> StrVal(<<"h">>), port |-> IntVal(3000)]

ServerSpecs ==
  { Base,
    [framework |-> StrVal(<<"h">>), port |-> IntVal(3000), openapi |-> StrVal(ContractOK)],
    [framework |-> StrVal(<<"h">>), port |-> IntVal(3000), openapi |-> StrVal(ContractBad)],
    [framework |-> StrVal(<<"h">>), port |-> IntVal(3000), middleware |-> Strs(<<B>>)],
    [framework |-> StrVal(<<"h">>), port |-> IntVal(3000),
     middleware |-> Strs(<<Z, B>>), depends_on |-> Strs(<<B>>)] }

MiddlewareSpecs ==
  { [provider |-> StrVal(<<"c">>)],
    [provider |-> StrVal(<<"c">>), depends_on |-> Strs(<<A>>)],
    [provider |-> StrVal(<<"c">>),
     depends_on |-> ListVal(<<StrVal(B), IntVal(7), StrVal(Z)>>)] }

PostgresSpecs == { [provider |-> StrVal(<<"d">>), schema |-> StrVal(<<"s">>)] }

UsecaseSpecs ==
  { [goal |-> StrVal(<<"g">>)] }
  \cup { [goal |-> StrVal(<<"g">>), binds_to |-> StrVal(b)] : b \in BindsToInputs }
  \cup { [goal |-> StrVal(<<"g">>), binds_to |-> StrVal(Bind(A, GET, PathU)),
          middleware |-> Strs(<<B>>)],
         [goal |-> StrVal(<<"g">>), binds_to |-> StrVal(Bind(Z, GET, PathU)),
          middleware |-> Strs(<<Z, A>>)] }

\* A kind outside the enumeration, with references that must not be resolved.
UnknownSpecs == { [middleware |-> Strs(<<A>>)] }

RawComponents ==
  { [ID |-> id, Kind |-> KindHTTPServer, Spec |-> m] : id \in IDs, m \in ServerSpecs }
  \cup { [ID |-> id, Kind |-> KindMiddleware, Spec |-> m] : id \in IDs, m \in MiddlewareSpecs }
  \cup { [ID |-> id, Kind |-> KindPostgres, Spec |-> m] : id \in IDs, m \in PostgresSpecs }
  \cup { [ID |-> id, Kind |-> KindUsecase, Spec |-> m] : id \in IDs, m \in UsecaseSpecs }
  \cup { [ID |-> id, Kind |-> "cache", Spec |-> m] : id \in IDs, m \in UnknownSpecs }

InputSpecs == UNION { [1..n -> RawComponents] : n \in 0..MaxComps }

\* Component lists with an empty ID, an empty server segment, and spec maps
\* whose fields are missing or of another type.
EdgeComponents ==
  { [ID |-> id, Kind |-> KindHTTPServer, Spec |-> m] :
      id \in {<<>>, A},
      m \in {Base, [framework |-> StrVal(<<"h">>), port |-> IntVal(3000),
                    openapi |-> StrVal(ContractOK)]} }
  \cup { [ID |-> A, Kind |-> KindHTTPServer,
          Spec |-> [framework |-> IntVal(1), port |-> StrVal(<<"p">>),
                    middleware |-> StrVal(B)]],
         [ID |-> B, Kind |-> KindUsecase, Spec |-> EmptyMap],
         [ID |-> B, Kind |-> KindMiddleware, Spec |-> EmptyMap],
         [ID |-> B, Kind |-> KindPostgres, Spec |-> [provider |-> ListVal(<<>>)]],
         [ID |-> B, Kind |-> "cache", Spec |-> EmptyMap] }
  \cup { [ID |-> B, Kind |-> KindUsecase,
          Spec |-> [goal |-> StrVal(<<"g">>), binds_to |-> StrVal(b)]] :
          b \in {Bind(<<>>, GET, PathU), Bind(A, GET, PathU)} }

EdgeInputs == UNION { [1..n -> EdgeComponents] : n \in 0..MaxComps }

RECURSIVE SumTo(_, _)
SumTo(f, n) == IF n = 0 THEN 0 ELSE f[n] + SumTo(f, n - 1)

\* MaxNodes middleware components; component k lists lens[k] depends_on
\* references, taken in order from targets.
GraphSpec(lens, targets) ==
  [k \in 1..MaxNodes |->
     [ID |-> <<Letters[k]>>, Kind |-> KindMiddleware,
      Spec |-> [provider   |-> StrVal(<<"c">>),
                depends_on |-> Strs([j \in 1..lens[k] |->
                                 <<Letters[targets[SumTo(lens, k - 1) + j]]>>])]]]

\* The component lists the graph algorithms are exercised on: every
\* dependency graph over MaxNodes components with at most MaxEdges edges.
GraphInputs ==
  UNION { { GraphSpec(lens, targets) :
              targets \in [1..SumTo(lens, MaxNodes) -> 1..MaxNodes] } :
          lens \in { l \in [1..MaxNodes -> 0..MaxEdges] : SumTo(l, MaxNodes) <= MaxEdges } }

\* The component lists Validate is exercised on.
SrvID == <<"s">>
MwID  == <<"m">>
PgID  == <<"p">>
UcID  == <<"u">>

\* Middleware lists: references to the middleware and to the database.
RefLists == UNION { [1..n -> {MwID, PgID}] : n \in 0..MaxRefs }

\* Raw port values around the limits of the valid range; a float64 is held
\* in tenths.
PortValues ==
  { IntVal(0), IntVal(-1), IntVal(1), IntVal(3000), IntVal(65535), IntVal(65536),
    [type |-> "float64", val |-> 5], [type |-> "float64", val |-> 655359],
    [type |-> "float64", val |-> 655360], [type |-> "float64", val |-> -15],
    StrVal(<<"8", "0">>) }

CrossServers ==
  { [framework |-> StrVal(<<"h">>), port |-> IntVal(3000), middleware |-> Strs(l)] :
      l \in RefLists }
  \cup { [framework |-> StrVal(<<"h">>), port |-> IntVal(3000),
          depends_on |-> Strs(<<MwID>>)],
         [framework |-> StrVal(<<"h">>), port |-> IntVal(3000),
          middleware |-> Strs(<<Z, MwID>>)] }

FieldMiddlewares ==
  { [provider |-> StrVal(Casbin)],
    [provider |-> StrVal(Casbin), model |-> StrVal(<<"m">>)],
    [provider |-> StrVal(Casbin), policy |-> StrVal(<<"p">>)],
    [provider |-> StrVal(Casbin), model |-> StrVal(<<"m">>), policy |-> StrVal(<<"p">>)],
    [provider |-> StrVal(BetterAuth)],
    [provider |-> StrVal(<<"c">>)],
    [provider |-> StrVal(Casbin), depends_on |-> Strs(<<MwID>>)],
    EmptyMap }

CrossMiddlewares ==
  { [provider |-> StrVal(BetterAuth), config |-> StrVal(<<"k">>)],
    [provider |-> StrVal(Casbin), model |-> StrVal(<<"m">>), policy |-> StrVal(<<"p">>)] }

CrossPostgres ==
  { [provider |-> StrVal(Drizzle), schema |-> StrVal(<<"s">>)],
    [provider |-> StrVal(<<"d">>), schema |-> StrVal(<<"s">>)] }

\* A usecase bound to the server when there is one.
CrossUsecases(withServer) ==
  { IF withServer
    THEN [goal |-> StrVal(<<"g">>), binds_to |-> StrVal(Bind(SrvID, GET, PathU)),
          middleware |-> Strs(l)]
    ELSE [goal |-> StrVal(<<"g">>), middleware |-> Strs(l)] : l \in RefLists }

\* The list of the components given; None stands for an absent component.
None == [absent |-> TRUE]
Present(id, kind, m) ==
  IF m = None THEN <<>> ELSE <<[ID |-> id, Kind |-> kind, Spec |-> m]>>

ValidateInputs ==
  { Present(SrvID, KindHTTPServer, sv) \o Present(MwID, KindMiddleware, mw)
      \o Present(PgID, KindPostgres, pg) \o Present(UcID, KindUsecase, uc) :
      sv \in {None}, mw \in {None}, pg \in {None}, uc \in {None} }
  \cup UNION { UNION { UNION { {
         Present(SrvID, KindHTTPServer, sv) \o Present(MwID, KindMiddleware, mw)
           \o Present(PgID, KindPostgres, pg) \o Present(UcID, KindUsecase, uc) :
           uc \in {None} \cup CrossUsecases(sv # None) } :
         pg \in {None} \cup CrossPostgres } :
         mw \in {None} \cup CrossMiddlewares } :
         sv \in {None} \cup CrossServers }
  \cup { Present(SrvID, KindHTTPServer, [framework |-> StrVal(<<"h">>)]) }
  \cup { Present(SrvID, KindHTTPServer, [framework |-> StrVal(<<"h">>), port |-> v]) :
          v \in PortValues }
  \cup { Present(MwID, KindMiddleware, mw) : mw \in FieldMiddlewares }
  \cup { Present(MwID, KindMiddleware, [provider |-> StrVal(<<"c">>)])
           \o Present(UcID, KindUsecase,
                      [goal |-> StrVal(<<"g">>),
                       binds_to |-> StrVal(Bind(MwID, GET, PathU))]) }

\* The specifications ComputeSpecHash is exercised on: two names, and the
\* component lists over three entries, two of them with the same ID.
HashSpecs ==
  { [Version |-> <<"1">>, Name |-> n, Description |-> <<"d">>, Components |-> cs] :
      n \in {<<"n">>, <<"f">>},
      cs \in UNION { [1..k -> { [ID |-> A, Kind |-> KindHTTPServer, Spec |-> EmptyMap],
                                [ID |-> B, Kind |-> KindPostgres, Spec |-> EmptyMap],
                                [ID |-> A, Kind |-> KindPostgres, Spec |-> EmptyMap] }] :
                     k \in 0..MaxComps } }

\* The lists of the components ComputeComponentHash is exercised on.
HashLists == UNION { [1..n -> {A, B, A \o B}] : n \in 0..MaxRefs }

\* The components ComputeComponentHash is exercised on, typed as Build
\* types them: each list-valued field in turn holds a list of HashLists, or
\* is absent.
HashComponents ==
  { parseComponentSpec(NewComponent(A, raw.Kind), raw.Spec) :
      raw \in
        { [Kind |-> KindHTTPServer,
           Spec |-> [framework |-> StrVal(<<"h">>), port |-> IntVal(3000)]],
          [Kind |-> KindMiddleware, Spec |-> [provider |-> StrVal(<<"c">>)]],
          [Kind |-> KindPostgres, Spec |-> [provider |-> StrVal(<<"d">>)]],
          [Kind |-> KindUsecase, Spec |-> [goal |-> StrVal(<<"g">>)]] }
        \cup UNION { {
          [Kind |-> KindHTTPServer,
           Spec |-> [framework |-> StrVal(<<"h">>), port |-> IntVal(3000),
                     middleware |-> Strs(l), depends_on |-> Strs(<<B, A>>)]],
          [Kind |-> KindHTTPServer,
           Spec |-> [framework |-> StrVal(<<"h">>), port |-> IntVal(3000),
                     depends_on |-> Strs(l)]],
          [Kind |-> KindMiddleware,
           Spec |-> [provider |-> StrVal(<<"c">>), depends_on |-> Strs(l)]],
          [Kind |-> KindUsecase,
           Spec |-> [goal |-> StrVal(<<"g">>), middleware |-> Strs(l)]],
          [Kind |-> KindUsecase,
           Spec |-> [goal |-> StrVal(<<"g">>), preconditions |-> Strs(l)]],
          [Kind |-> KindUsecase,
           Spec |-> [goal |-> StrVal(<<"g">>), acceptance_criteria |-> Strs(l)]],
          [Kind |-> KindUsecase,
           Spec |-> [goal |-> StrVal(<<"g">>), postconditions |-> Strs(l),
                     preconditions |-> Strs(<<B, A>>)]] } : l \in HashLists } }

\* Component lists whose errors, edges and bindings come from several
\* components, so that the order of the map ranges shows: lists of up to
\* three of these components with pairwise different IDs.
OrderComponents ==
  { [ID |-> SrvID, Kind |-> KindHTTPServer,
     Spec |-> [framework |-> StrVal(<<"h">>), port |-> IntVal(3000),
               openapi |-> StrVal(ContractOK), middleware |-> Strs(<<MwID>>)]],
    [ID |-> SrvID, Kind |-> KindHTTPServer,
     Spec |-> [framework |-> StrVal(<<"h">>), port |-> IntVal(3000),
               depends_on |-> Strs(<<MwID>>)]],
    [ID |-> SrvID, Kind |-> KindHTTPServer,
     Spec |-> [framework |-> StrVal(<<"h">>), port |-> IntVal(3000),
               openapi |-> StrVal(ContractBad), middleware |-> Strs(<<Z>>)]],
    [ID |-> MwID, Kind |-> KindMiddleware, Spec |-> [provider |-> StrVal(<<"c">>)]],
    [ID |-> MwID, Kind |-> KindMiddleware,
     Spec |-> [provider |-> StrVal(<<"c">>), depends_on |-> Strs(<<SrvID>>)]],
    [ID |-> UcID, Kind |-> KindUsecase,
     Spec |-> [goal |-> StrVal(<<"g">>), binds_to |-> StrVal(Bind(SrvID, GET, PathU)),
               middleware |-> Strs(<<MwID>>)]],
    [ID |-> UcID, Kind |-> KindUsecase,
     Spec |-> [goal |-> StrVal(<<"g">>), binds_to |-> StrVal(Bind(SrvID, PUT, PathU)),
               middleware |-> Strs(<<Z>>)]],
    [ID |-> PgID, Kind |-> KindUsecase,
     Spec |-> [binds_to |-> StrVal(Bind(Z, GET, PathU))]],
    [ID |-> PgID, Kind |-> KindPostgres, Spec |-> [provider |-> StrVal(Drizzle)]],
    [ID |-> PgID, Kind |-> "cache", Spec |-> EmptyMap] }

OrderInputs ==
  { cs \in UNION { [1..n -> OrderComponents] : n \in 1..3 } :
      \A j, k \in 1..Len(cs) : j # k => cs[j].ID # cs[k].ID }

\* The cache files Load is run on: no file, a directory, bytes that are no
\* JSON, documents that are no object, and objects whose cache_version is
\* missing, null, empty, current, another version or a number, with
\* components of the right and of other types and keys in other spellings.
StoredVersions ==
  {JSONNull, StrVal(<<>>), StrVal(CurrentCacheVersion), StrVal(<<"9", "9", ".", "0">>),
   StrVal(<<"0", ".", "9">>), IntVal(1)}

StoredComponents ==
  {JSONNull, JSONObject(EmptyMap),
   JSONObject([id \in {A} |-> JSONNull]),
   JSONObject([id \in {A} |->
     JSONObject([hash |-> StrVal(Text(<<"h">>)), artifacts |-> Strs(<<A, B>>)])]),
   JSONObject([id \in {A, Z} |->
     JSONObject(IF id = A THEN [hash |-> StrVal(Text(<<"h">>))]
                ELSE [hash |-> StrVal(Text(<<"k">>)), artifacts |-> Strs(<<>>)])])}

MistypedComponents ==
  {Strs(<<A>>),
   JSONObject([id \in {A} |-> IntVal(1)]),
   JSONObject([id \in {A} |-> JSONObject([hash |-> IntVal(1)])]),
   JSONObject([id \in {A} |->
     JSONObject([hash |-> StrVal(Text(<<"h">>)), artifacts |-> StrVal(B)])]),
   JSONObject([id \in {A, Z} |->
     JSONObject(IF id = A THEN [hash |-> StrVal(Text(<<"h">>))]
                ELSE [hash |-> StrVal(Text(<<"k">>)),
                      artifacts |-> ListVal(<<IntVal(1), StrVal(B)>>)])])}

RespelledFiles ==
  {JSONObject([CACHE_VERSION |-> StrVal(CurrentCacheVersion),
               spechash |-> StrVal(Text(<<"s">>)),
               Components |-> JSONObject([id \in {A} |->
                 JSONObject([Hash |-> StrVal(Text(<<"h">>)),
                             ARTIFACTS |-> ListVal(<<StrVal(B), JSONNull>>)])])]),
   JSONObject([Cache_Version |-> StrVal(<<"0", ".", "9">>),
               specHash |-> StrVal(Text(<<"s">>))]),
   JSONObject([version |-> StrVal(CurrentCacheVersion),
               specHash |-> StrVal(Text(<<"s">>)),
               components |-> JSONObject([id \in {A} |-> JSONObject(EmptyMap)])])}

CacheFiles ==
  {NoFile, IsDirectory, InvalidJSON, JSONNull, Strs(<<A>>), StrVal(CurrentCacheVersion)}
  \cup RespelledFiles
  \cup { JSONObject([specHash |-> h, components |-> c]) :
           h \in {StrVal(Text(<<"s">>))}, c \in StoredComponents }
  \cup { JSONObject([cache_version |-> v, components |-> c]) :
           v \in StoredVersions, c \in {JSONObject(EmptyMap)} }
  \cup { JSONObject([cache_version |-> v, specHash |-> h, components |-> c]) :
           v \in StoredVersions, h \in {StrVal(Text(<<"s">>)), IntVal(1)},
           c \in StoredComponents }
  \cup { JSONObject([cache_version |-> v, specHash |-> h, components |-> c]) :
           v \in {StrVal(CurrentCacheVersion), StrVal(<<"9", "9", ".", "0">>)},
           h \in {StrVal(Text(<<"s">>))}, c \in MistypedComponents }
  \cup { JSONObject([cache_version |-> v, specHash |-> h]) :
           v \in StoredVersions, h \in {StrVal(Text(<<"s">>))} }

\* The calls of the file system that Save finds refused.
SaveFaults == {"none", "mkdir", "open", "write"}

\* The specifications Update is run on.
CacheSpecs ==
  { [Version |-> <<"1">>, Name |-> <<"n">>, Description |-> <<"d">>, Components |-> cs] :
      cs \in { <<>>,
               Present(A, KindHTTPServer, Base),
               Present(B, KindPostgres, EmptyMap),
               Present(A, KindHTTPServer, Base) \o Present(B, KindPostgres, EmptyMap) } }

\* The artifact lists SetArtifacts is given.
ArtifactLists == {NilSlice, Slice(<<B, A>>)}

\* The runs of the compile pipeline: what each collaborator answers (the
\* document parser, the schema validator, the plugin registry, the
\* generators, the file system), and the component list parsed.
GeneratorRuns ==
  { [Name |-> "server", Err |-> FALSE,
     Output |-> [Files |-> [f \in fs |-> [Content |-> "server", ComponentID |-> <<>>]]]] :
      fs \in {{A}, {A, B}, {<<>>}} }
  \cup { [Name |-> "docker", Err |-> FALSE,
          Output |-> [Files |-> [f \in {A} |-> [Content |-> "docker",
                                                ComponentID |-> <<>>]]]],
         [Name |-> "server", Err |-> TRUE, Output |-> Nil],
         [Name |-> "docker", Err |-> FALSE, Output |-> Nil] }

PipelineInputs ==
  [ParseOK    : BOOLEAN,
   SchemaOK   : BOOLEAN,
   AST        : { Present(SrvID, KindHTTPServer, Base),
                  Present(SrvID, "cache", EmptyMap),
                  Present(SrvID, KindHTTPServer, [framework |-> StrVal(<<"h">>)]) },
   Registry   : {"ok", "failed to initialize plugin registry",
                 "failed to resolve generators"},
   Generators : UNION { [1..n -> GeneratorRuns] : n \in 0..MaxGens },
   WriteFails : {[at |-> 0, call |-> "none"]}
                  \cup [at : 1..MaxGens, call : {"MkdirAll", "WriteFile"}]]

(***************************************************************************)
(* Specification Spec: Build on a component list.                          *)
(***************************************************************************)
Idle ==
  /\ visited = {} /\ inStack = {} /\ path = <<>> /\ cycles = <<>>
  /\ result = NilSlice /\ sortErr = Nil /\ trace = <<>>

State == [Components |-> Components, heap |-> heap, Edges |-> Edges,
          Symbols |-> Symbols, errs |-> errs]

Becomes(st) ==
  /\ Components' = st.Components
  /\ heap' = st.heap
  /\ Edges' = st.Edges
  /\ Symbols' = st.Symbols
  /\ errs' = st.errs

Init ==
  /\ spec \in InputSpecs
  /\ Components = NewIR.Components /\ heap = NewIR.heap /\ Edges = NewIR.Edges
  /\ Symbols = NewIR.Symbols /\ errs = NewIR.errs
  /\ pc = "phase1" /\ call = "Build" /\ iComp = 1 /\ todo = {}
  /\ Idle

\* Phase 1: one iteration of "for i := range spec.Components".
BuildPhase1 ==
  /\ pc = "phase1" /\ iComp <= Len(spec)
  /\ Becomes(phase1Body(State, spec[iComp], iComp))
  /\ iComp' = iComp + 1
  /\ UNCHANGED <<spec, pc, call, todo, graphVars, trace>>

\* Phase 1 reported an error: Build returns.
BuildPhase1Failed ==
  /\ pc = "phase1" /\ iComp > Len(spec)
  /\ phase1Failed(errs)
  /\ pc' = "returned"
  /\ UNCHANGED <<spec, irVars, errs, call, iComp, todo, graphVars, trace>>

\* Phase 1 reported no error: on to parseOpenAPISpecs.
BuildPhase2Begin ==
  /\ pc = "phase1" /\ iComp > Len(spec)
  /\ ~phase1Failed(errs)
  /\ pc' = "phase2" /\ todo' = DOMAIN Components
  /\ UNCHANGED <<spec, irVars, errs, call, iComp, graphVars, trace>>

\* Phase 2: one iteration of "for _, comp := range ir.Components".
BuildPhase2 ==
  /\ pc = "phase2"
  /\ \E id \in todo :
       /\ Becomes(parseOpenAPIBody(State, Components[id]))
       /\ todo' = todo \ {id}
  /\ UNCHANGED <<spec, pc, call, iComp, graphVars, trace>>

BuildPhase3Begin ==
  /\ pc = "phase2" /\ todo = {}
  /\ pc' = "phase3" /\ todo' = DOMAIN Components
  /\ UNCHANGED <<spec, irVars, errs, call, iComp, graphVars, trace>>

\* Phase 3: one iteration of "for _, comp := range ir.Components".
BuildPhase3 ==
  /\ pc = "phase3"
  /\ \E id \in todo :
       /\ Becomes(resolveReferences(State, Components[id]))
       /\ todo' = todo \ {id}
  /\ UNCHANGED <<spec, pc, call, iComp, graphVars, trace>>

BuildPhase4Begin ==
  /\ pc = "phase3" /\ todo = {}
  /\ pc' = "phase4" /\ todo' = DOMAIN Components
  /\ UNCHANGED <<spec, irVars, errs, call, iComp, graphVars, trace>>

\* Phase 4: one iteration of the loop of linkUsecasesToOperations.
BuildPhase4 ==
  /\ pc = "phase4"
  /\ \E id \in todo :
       /\ Becomes(linkUsecaseBody(State, Components[id]))
       /\ todo' = todo \ {id}
  /\ UNCHANGED <<spec, pc, call, iComp, graphVars, trace>>

\* return ir, errs
BuildReturn ==
  /\ pc = "phase4" /\ todo = {}
  /\ pc' = "returned"
  /\ UNCHANGED <<spec, irVars, errs, call, iComp, todo, graphVars, trace>>

Next ==
  \/ BuildPhase1
  \/ BuildPhase1Failed
  \/ BuildPhase2Begin
  \/ BuildPhase2
  \/ BuildPhase3Begin
  \/ BuildPhase3
  \/ BuildPhase4Begin
  \/ BuildPhase4
  \/ BuildReturn

Spec == Init /\ [][Next]_vars

(***************************************************************************)
(* Specification SpecBuildEdge: Build on the component lists EdgeInputs.   *)
(***************************************************************************)
InitEdge ==
  /\ spec \in EdgeInputs
  /\ Components = NewIR.Components /\ heap = NewIR.heap /\ Edges = NewIR.Edges
  /\ Symbols = NewIR.Symbols /\ errs = NewIR.errs
  /\ pc = "phase1" /\ call = "Build" /\ iComp = 1 /\ todo = {}
  /\ Idle

SpecBuildEdge == InitEdge /\ [][Next]_vars


(***************************************************************************)
(* Specification SpecGraph: DetectCycles and TopologicalSort on an IR      *)
(* that Build returned.                                                    *)
(***************************************************************************)
InitGraph ==
  /\ spec \in GraphInputs
  /\ LET st == BuildInOrder(spec) IN
       /\ Components = st.Components /\ heap = st.heap /\ Edges = st.Edges
       /\ Symbols = st.Symbols /\ errs = st.errs
  /\ pc = "returned" /\ call = "Build" /\ iComp = MaxNodes + 1 /\ todo = {}
  /\ Idle

\* The locals of DetectCycles as it starts.
EnterDetectCycles ==
  /\ visited' = {} /\ inStack' = {} /\ path' = <<>> /\ cycles' = <<>>
  /\ pc' = "detect"

\* ir.DetectCycles() is called.
CallDetectCycles ==
  /\ pc = "returned" /\ call = "Build"
  /\ call' = "DetectCycles"
  /\ EnterDetectCycles
  /\ UNCHANGED <<spec, irVars, errs, iComp, todo, result, sortErr, trace>>

\* ir.TopologicalSort() is called; it starts with ir.DetectCycles().
CallTopologicalSort ==
  /\ pc = "returned" /\ call = "Build"
  /\ call' = "TopologicalSort"
  /\ EnterDetectCycles
  /\ UNCHANGED <<spec, irVars, errs, iComp, todo, result, sortErr, trace>>

\* DetectCycles: the next iteration of "for _, comp := range ir.Components"
\* that passes "if !visited[comp.ID]"; the map is ranged over in any order.
DetectCyclesRoot ==
  /\ pc = "detect"
  /\ \E id \in DOMAIN Components :
       /\ heap[Components[id]].ID \notin visited
       /\ LET r == dfs(heap, Components[id],
                       [visited |-> visited, inStack |-> inStack,
                        path |-> path, cycles |-> cycles])
          IN /\ visited' = r.st.visited
             /\ inStack' = r.st.inStack
             /\ path' = r.st.path
             /\ cycles' = r.st.cycles
  /\ UNCHANGED <<spec, irVars, errs, pc, call, iComp, todo, result, sortErr, trace>>

RangeDone == \A id \in DOMAIN Components : heap[Components[id]].ID \in visited

\* DetectCycles returns cycles to its caller.
DetectCyclesReturn ==
  /\ pc = "detect" /\ call = "DetectCycles" /\ RangeDone
  /\ pc' = "returned"
  /\ UNCHANGED <<spec, irVars, errs, call, iComp, todo, graphVars, trace>>

\* TopologicalSort: return nil, &CycleError{Cycles: cycles}
SortCycleError ==
  /\ pc = "detect" /\ call = "TopologicalSort" /\ RangeDone
  /\ Len(cycles) > 0
  /\ result' = NilSlice
  /\ sortErr' = CycleError(cycles)
  /\ pc' = "returned"
  /\ UNCHANGED <<spec, irVars, errs, call, iComp, todo, visited, inStack, path, cycles, trace>>

\* TopologicalSort: no cycle; visited and result are made.
SortBegin ==
  /\ pc = "detect" /\ call = "TopologicalSort" /\ RangeDone
  /\ Len(cycles) = 0
  /\ visited' = {}
  /\ result' = Slice(<<>>)
  /\ pc' = "sort"
  /\ UNCHANGED <<spec, irVars, errs, call, iComp, todo, inStack, path, cycles, sortErr, trace>>

\* TopologicalSort: the next iteration of "for _, comp := range ir.Components"
\* whose visit(comp) does not return at once.
SortVisit ==
  /\ pc = "sort"
  /\ \E id \in DOMAIN Components :
       /\ heap[Components[id]].ID \notin visited
       /\ LET st == visit(heap, Components[id],
                          [visited |-> visited, result |-> result.elems])
          IN /\ visited' = st.visited
             /\ result' = Slice(st.result)
  /\ UNCHANGED <<spec, irVars, errs, pc, call, iComp, todo, inStack, path, cycles, sortErr, trace>>

\* TopologicalSort: return result, nil
SortReturn ==
  /\ pc = "sort" /\ RangeDone
  /\ sortErr' = Nil
  /\ pc' = "returned"
  /\ UNCHANGED <<spec, irVars, errs, call, iComp, todo, visited, inStack, path, cycles, result, trace>>

NextGraph ==
  \/ CallDetectCycles
  \/ CallTopologicalSort
  \/ DetectCyclesRoot
  \/ DetectCyclesReturn
  \/ SortCycleError
  \/ SortBegin
  \/ SortVisit
  \/ SortReturn

SpecGraph == InitGraph /\ [][NextGraph]_vars

(***************************************************************************)
(* Specification SpecValidate: Validate on an IR that Build returned.  The *)
(* variable errs holds the local errs of the function named by call.       *)
(***************************************************************************)
InitValidate ==
  /\ spec \in ValidateInputs
  /\ LET st == BuildInOrder(spec) IN
       /\ Components = st.Components /\ heap = st.heap /\ Edges = st.Edges
       /\ Symbols = st.Symbols /\ errs = st.errs
  /\ pc = "returned" /\ call = "Build" /\ iComp = Len(spec) + 1 /\ todo = {}
  /\ Idle

\* ir.Validate() is called: var errs []error; cycles := ir.DetectCycles()
CallValidate ==
  /\ pc = "returned" /\ call = "Build"
  /\ call' = "Validate"
  /\ errs' = <<>>
  /\ EnterDetectCycles
  /\ UNCHANGED <<spec, irVars, iComp, todo, result, sortErr, trace>>

\* DetectCycles has returned: one error for each cycle, then the range over
\* ir.Components begins.
ValidateCycles ==
  /\ pc = "detect" /\ call = "Validate" /\ RangeDone
  /\ errs' = errs \o cycleErrors(cycles)
  /\ pc' = "components" /\ todo' = DOMAIN Components
  /\ UNCHANGED <<spec, irVars, call, iComp, graphVars, trace>>

\* One iteration of "for _, comp := range ir.Components".
ValidateComponent ==
  /\ pc = "components"
  /\ \E id \in todo :
       /\ errs' = errs \o validateComponent(Symbols, heap[Components[id]])
       /\ todo' = todo \ {id}
  /\ UNCHANGED <<spec, irVars, pc, call, iComp, graphVars, trace>>

\* The cross-component validations, and return errs.
ValidateReturn ==
  /\ pc = "components" /\ todo = {}
  /\ errs' = errs \o validateBetterAuthRequirements(heap, Components)
  /\ pc' = "returned"
  /\ UNCHANGED <<spec, irVars, call, iComp, todo, graphVars, trace>>

NextValidate ==
  \/ CallValidate
  \/ DetectCyclesRoot
  \/ ValidateCycles
  \/ ValidateComponent
  \/ ValidateReturn

SpecValidate == InitValidate /\ [][NextValidate]_vars

(***************************************************************************)
(* Specification SpecHash: two calls of ComputeSpecHash, or two calls of   *)
(* ComputeComponentHash.  Call k hashes the component at heap[k]; trace    *)
(* records each call: its argument and the hash returned.                  *)
(***************************************************************************)
InitHash ==
  /\ spec = <<>>
  /\ Components = NewIR.Components /\ heap = NewIR.heap /\ Edges = NewIR.Edges
  /\ Symbols = NewIR.Symbols /\ errs = NewIR.errs
  /\ pc = "hash" /\ call = "none" /\ iComp = 1 /\ todo = {}
  /\ Idle

\* hash, err := ComputeSpecHash(ir.New(sp))
CallComputeSpecHash ==
  /\ pc = "hash" /\ call \in {"none", "ComputeSpecHash"}
  /\ \E sp \in HashSpecs :
       trace' = Append(trace, [op |-> "ComputeSpecHash", arg |-> sp,
                               hash |-> ComputeSpecHash(sp)])
  /\ call' = "ComputeSpecHash"
  /\ iComp' = iComp + 1
  /\ pc' = IF iComp = 2 THEN "returned" ELSE pc
  /\ UNCHANGED <<spec, irVars, errs, todo, graphVars>>

\* hash, err := ComputeComponentHash(comp), comp a new component.
CallComputeComponentHash ==
  /\ pc = "hash" /\ call \in {"none", "ComputeComponentHash"}
  /\ \E comp \in HashComponents :
       LET r == ComputeComponentHash(comp) IN
       /\ heap' = Put(heap, iComp, r.comp)
       /\ trace' = Append(trace, [op |-> "ComputeComponentHash", arg |-> comp,
                                  hash |-> r.hash])
  /\ call' = "ComputeComponentHash"
  /\ iComp' = iComp + 1
  /\ pc' = IF iComp = 2 THEN "returned" ELSE pc
  /\ UNCHANGED <<spec, Components, Edges, Symbols, errs, todo, graphVars>>

NextHash == CallComputeSpecHash \/ CallComputeComponentHash

SpecHash == InitHash /\ [][NextHash]_vars

(***************************************************************************)
(* Specification SpecOrders: Build and, when Build returned no error,      *)
(* Validate, each map range in any order.                                  *)
(***************************************************************************)
InitOrders ==
  /\ spec \in OrderInputs
  /\ Components = NewIR.Components /\ heap = NewIR.heap /\ Edges = NewIR.Edges
  /\ Symbols = NewIR.Symbols /\ errs = NewIR.errs
  /\ pc = "phase1" /\ call = "Build" /\ iComp = 1 /\ todo = {}
  /\ Idle

\* validateIRStage.Run, reached when buildIRStage.Run returned no error.
CallValidateIR == errs = <<>> /\ CallValidate

NextOrders ==
  \/ Next
  \/ CallValidateIR
  \/ DetectCyclesRoot
  \/ ValidateCycles
  \/ ValidateComponent
  \/ ValidateReturn

SpecOrders == InitOrders /\ [][NextOrders]_vars

(***************************************************************************)
(* Specification SpecCache: New, Load, Update, SetArtifacts and Save calls *)
(* on one cache file.  spec is the file, result the cache in memory (Nil   *)
(* before the first New or Load), sortErr the error of the last Load or    *)
(* Save, the IR variables the IR last given to Update, trace the last call *)
(* with the cache it was made on.                                          *)
(***************************************************************************)
InitCache ==
  /\ spec \in CacheFiles
  /\ Components = NewIR.Components /\ heap = NewIR.heap /\ Edges = NewIR.Edges
  /\ Symbols = NewIR.Symbols /\ errs = NewIR.errs
  /\ pc = "load" /\ call = "none" /\ iComp = 1 /\ todo = {}
  /\ Idle

\* c := New()
CallNew ==
  /\ pc = "load"
  /\ result' = NewCache
  /\ sortErr' = Nil
  /\ pc' = "loaded"
  /\ call' = "New"
  /\ UNCHANGED <<spec, irVars, errs, iComp, todo, visited, inStack, path, cycles, trace>>

\* c, err := Load(path), at the start or in place of the cache in memory.
CallLoad ==
  /\ pc \in {"load", "loaded"}
  /\ LET r == Load(spec) IN
       /\ result' = r.cache
       /\ sortErr' = r.err
       /\ pc' = IF r.err # Nil THEN "returned" ELSE "loaded"
  /\ call' = "Load"
  /\ UNCHANGED <<spec, irVars, errs, iComp, todo, visited, inStack, path, cycles, trace>>

\* c.Update(irData), irData built from a specification of CacheSpecs.
CallUpdate ==
  /\ pc = "loaded"
  /\ \E sp \in CacheSpecs :
       LET ir == BuildInOrder(sp.Components) IN
       /\ result' = Update(result, sp, ir)
       /\ Components' = ir.Components /\ heap' = ir.heap
       /\ Edges' = ir.Edges /\ Symbols' = ir.Symbols
       /\ trace' = <<[op |-> "Update", arg |-> sp, before |-> result]>>
  /\ call' = "Update"
  /\ UNCHANGED <<spec, errs, pc, iComp, todo, visited, inStack, path, cycles, sortErr>>

\* c.SetArtifacts(componentID, artifacts); the assignment through a nil
\* entry panics.
CallSetArtifacts ==
  /\ pc = "loaded"
  /\ \E componentID \in {A, Z}, artifacts \in ArtifactLists :
       /\ trace' = <<[op |-> "SetArtifacts", arg |-> [id |-> componentID,
                                                       artifacts |-> artifacts],
                      before |-> result]>>
       /\ IF componentID \in DOMAIN result.Components
             /\ result.Components[componentID] = Nil
          THEN pc' = "panic" /\ result' = result
          ELSE pc' = pc /\ result' = SetArtifacts(result, componentID, artifacts)
  /\ call' = "SetArtifacts"
  /\ UNCHANGED <<spec, irVars, errs, iComp, todo, visited, inStack, path, cycles, sortErr>>

\* err := c.Save(path)
CallSave ==
  /\ pc = "loaded"
  /\ \E fault \in SaveFaults :
       LET r == Save(result, spec, fault) IN
       /\ spec' = r.file
       /\ sortErr' = r.err
       /\ trace' = <<[op |-> "Save", arg |-> fault, before |-> spec]>>
  /\ call' = "Save"
  /\ UNCHANGED <<irVars, errs, pc, iComp, todo, visited, inStack, path, cycles, result>>

NextCache == CallNew \/ CallLoad \/ CallUpdate \/ CallSetArtifacts \/ CallSave

SpecCache == InitCache /\ [][NextCache]_vars

(***************************************************************************)
(* Specification SpecPlanner: Add, AddOutput and Artifacts calls on one    *)
(* ArtifactPlanner.  heap is p.byPath, sortErr the error of the last call, *)
(* result the slice Artifacts returned, trace the last call with the plan  *)
(* it was made on.                                                         *)
(***************************************************************************)
PlanPaths  == {<<>>, A, B, A \o B}
PlanOwners == {"gen-a", "gen-b"}
PlanOutputs ==
  {Nil} \cup { [Files |-> [f \in fs |-> [Content |-> "z", ComponentID |-> <<>>]]] :
                fs \in {{A}, {A, A \o B, B}, {B, <<>>}} }

\* p := NewArtifactPlanner()
InitPlanner ==
  /\ spec = <<>>
  /\ Components = NewIR.Components /\ heap = EmptyMap /\ Edges = NewIR.Edges
  /\ Symbols = NewIR.Symbols /\ errs = NewIR.errs
  /\ pc = "plan" /\ call = "NewArtifactPlanner" /\ iComp = 1 /\ todo = {}
  /\ Idle

\* err := p.Add(owner, path, content, componentID)
CallAdd ==
  /\ pc = "plan"
  /\ \E owner \in PlanOwners, p \in PlanPaths :
       LET content == IF owner = "gen-a" THEN "a" ELSE "b"
           r == Add(heap, owner, p, content, A) IN
       /\ heap' = r.byPath
       /\ sortErr' = r.err
       /\ trace' = <<[op |-> "Add", before |-> heap,
                      arg |-> [owner |-> owner, path |-> p, content |-> content,
                               componentID |-> A]]>>
  /\ call' = "Add"
  /\ UNCHANGED <<spec, Components, Edges, Symbols, errs, pc, iComp, todo,
                 visited, inStack, path, cycles, result>>

\* err := p.AddOutput(owner, output)
CallAddOutput ==
  /\ pc = "plan"
  /\ \E owner \in PlanOwners, output \in PlanOutputs :
       LET r == AddOutput(heap, owner, output) IN
       /\ heap' = r.byPath
       /\ sortErr' = r.err
       /\ trace' = <<[op |-> "AddOutput", before |-> heap,
                      arg |-> [owner |-> owner, output |-> output]]>>
  /\ call' = "AddOutput"
  /\ UNCHANGED <<spec, Components, Edges, Symbols, errs, pc, iComp, todo,
                 visited, inStack, path, cycles, result>>

\* artifacts := p.Artifacts()
CallArtifacts ==
  /\ pc = "plan"
  /\ result' = Slice(Artifacts(heap))
  /\ sortErr' = Nil
  /\ trace' = <<[op |-> "Artifacts", before |-> heap, arg |-> <<>>]>>
  /\ call' = "Artifacts"
  /\ UNCHANGED <<spec, irVars, errs, pc, iComp, todo, visited, inStack, path, cycles>>

NextPlanner == CallAdd \/ CallAddOutput \/ CallArtifacts

SpecPlanner == InitPlanner /\ [][NextPlanner]_vars

(***************************************************************************)
(* Specification SpecWrite: writeStage.Run on a context whose artifacts    *)
(* have paths inside and outside the output directory, on a file system    *)
(* that may refuse some paths.  spec is the context with the file system's *)
(* refusals, iComp the index of the next artifact, heap the file system,   *)
(* sortErr the error Run returns.                                          *)
(***************************************************************************)
OutputDirs == { [rooted |-> TRUE, segs |-> <<"tmp", "out">>],
                [rooted |-> FALSE, segs |-> <<"out">>] }

ArtifactPaths ==
  { <<"README.md">>, <<"src">>, <<"src", "index.ts">>, <<"src", ".", "..", "index.ts">>,
    <<"..", "etc", "passwd">>, <<"subdir", "..", "..", "etc", "passwd">> }

\* What the file system refuses: nothing, to make the directory src, to
\* open README.md, or to write the whole of index.ts.
Refusals(dir) ==
  { [Denied |-> {}, Short |-> {}],
    [Denied |-> {Join(dir, <<"src">>)}, Short |-> {}],
    [Denied |-> {Join(dir, <<"README.md">>)}, Short |-> {}],
    [Denied |-> {}, Short |-> {Join(dir, <<"index.ts">>)}] }

WriteContexts ==
  { [OutputDir |-> dir, Artifacts |-> as, Denied |-> r.Denied, Short |-> r.Short] :
      dir \in OutputDirs, r \in UNION {Refusals(d) : d \in OutputDirs},
      as \in UNION { [1..n -> { [Owner |-> "gen-a", Path |-> p, Content |-> "c",
                                 ComponentID |-> <<>>] : p \in ArtifactPaths }] :
                     n \in 0..MaxGens } }

InitWrite ==
  /\ spec \in WriteContexts
  /\ Components = NewIR.Components /\ heap = EmptyFS /\ Edges = NewIR.Edges
  /\ Symbols = NewIR.Symbols /\ errs = NewIR.errs
  /\ pc = "write" /\ call = "writeStage.Run" /\ iComp = 1 /\ todo = {}
  /\ Idle

\* for _, artifact := range ctx.Artifacts: MkdirAll, WriteFile, return on
\* the first error.
WriteArtifact ==
  /\ pc = "write" /\ iComp <= Len(spec.Artifacts)
  /\ LET r == writeArtifact(heap, spec.OutputDir, spec.Artifacts[iComp],
                            spec.Denied, spec.Short) IN
       /\ heap' = r.fs
       /\ sortErr' = r.err
       /\ IF r.err # Nil THEN pc' = "returned" /\ iComp' = iComp
          ELSE pc' = pc /\ iComp' = iComp + 1
  /\ UNCHANGED <<spec, Components, Edges, Symbols, errs, call, todo,
                 visited, inStack, path, cycles, result, trace>>

\* return nil
WriteReturn ==
  /\ pc = "write" /\ iComp > Len(spec.Artifacts)
  /\ pc' = "returned"
  /\ UNCHANGED <<spec, irVars, errs, call, iComp, todo, graphVars, trace>>

NextWrite == WriteArtifact \/ WriteReturn

SpecWrite == InitWrite /\ [][NextWrite]_vars

(***************************************************************************)
(* Specification SpecPipeline: Pipeline.Run on the stages of the compile   *)
(* command.  spec is the run's input, iComp the index of the next stage,   *)
(* the IR variables ctx.IR (empty while it is nil), result ctx.Artifacts,  *)
(* errs the error Run returns, trace the calls made so far.                *)
(***************************************************************************)
InitPipeline ==
  /\ spec \in PipelineInputs
  /\ Components = NewIR.Components /\ heap = NewIR.heap /\ Edges = NewIR.Edges
  /\ Symbols = NewIR.Symbols /\ errs = NewIR.errs
  /\ pc = "run" /\ call = "Pipeline.Run" /\ iComp = 1 /\ todo = {}
  /\ Idle

\* One iteration of "for _, s := range p.stages".
PipelineStage ==
  /\ pc = "run" /\ iComp <= Len(CompileStages)
  /\ LET r == StageRun(CompileStages[iComp], spec,
                       [IR |-> [Components |-> Components, heap |-> heap,
                                Edges |-> Edges, Symbols |-> Symbols,
                                errs |-> <<>>],
                        Artifacts |-> result])
     IN /\ Components' = r.ctx.IR.Components /\ heap' = r.ctx.IR.heap
        /\ Edges' = r.ctx.IR.Edges /\ Symbols' = r.ctx.IR.Symbols
        /\ result' = r.ctx.Artifacts
        /\ trace' = trace \o <<Called("Stage.Run", CompileStages[iComp], r.err # Nil)>>
                      \o r.calls
        /\ IF stageFailed(r.err)
           THEN errs' = <<r.err>> /\ pc' = "returned" /\ iComp' = iComp
           ELSE errs' = errs /\ pc' = pc /\ iComp' = iComp + 1
  /\ UNCHANGED <<spec, call, todo, visited, inStack, path, cycles, sortErr>>

\* return nil
PipelineReturn ==
  /\ pc = "run" /\ iComp > Len(CompileStages)
  /\ pc' = "returned"
  /\ UNCHANGED <<spec, irVars, errs, call, iComp, todo, graphVars, trace>>

NextPipeline == PipelineStage \/ PipelineReturn

SpecPipeline == InitPipeline /\ [][NextPipeline]_vars


(***************************************************************************)
(* Specification SpecSym: Define and Lookup calls on one symbol table.     *)
(***************************************************************************)
SymNames == {A, B}
SymKinds == {KindHTTPServer, KindPostgres}
SymComps == {1, 2}

InitSym ==
  /\ spec = <<>>
  /\ Components = NewIR.Components /\ heap = NewIR.heap /\ Edges = NewIR.Edges
  /\ Symbols = NewSymbolTable /\ errs = NewIR.errs
  /\ pc = "idle" /\ call = "SymbolTable" /\ iComp = 1 /\ todo = {}
  /\ Idle

\* st.Define(name, kind, comp)
SymDefine ==
  /\ Len(trace) < MaxCalls
  /\ \E name \in SymNames, kind \in SymKinds, comp \in SymComps :
       LET d == Define(Symbols, name, kind, comp) IN
         /\ Symbols' = d.symbols
         /\ trace' = Append(trace, [op |-> "Define", name |-> name, kind |-> kind,
                                    comp |-> comp, err |-> d.err,
                                    before |-> Symbols, after |-> d.symbols])
  /\ UNCHANGED <<spec, Components, heap, Edges, errs, pc, call, iComp, todo, graphVars>>

\* st.Lookup(name)
SymLookup ==
  /\ Len(trace) < MaxCalls
  /\ \E name \in SymNames \cup {Z} :
       LET l == Lookup(Symbols, name) IN
         trace' = Append(trace, [op |-> "Lookup", name |-> name, sym |-> l.sym,
                                 ok |-> l.ok, before |-> Symbols, after |-> Symbols])
  /\ UNCHANGED <<spec, irVars, errs, pc, call, iComp, todo, graphVars>>

NextSym == SymDefine \/ SymLookup

SpecSym == InitSym /\ [][NextSym]_vars

(***************************************************************************)
(* The dependency graph of the IR, as a relation on its components.        *)
(***************************************************************************)
Ptrs == {Components[id] : id \in DOMAIN Components}

DependsOn(x, y) == \E k \in 1..Len(heap[x].Dependencies) : heap[x].Dependencies[k] = y

RECURSIVE ReachableIn(_, _)
\* The components reached from the set S along at most n dependency edges.
ReachableIn(S, n) ==
  IF n = 0 THEN S
  ELSE ReachableIn(S \cup {y \in DOMAIN heap : \E x \in S : DependsOn(x, y)}, n - 1)

HasCycle ==
  \E x \in DOMAIN heap :
     x \in ReachableIn({y \in DOMAIN heap : DependsOn(x, y)}, Cardinality(DOMAIN heap))

Position(s, x) == CHOOSE k \in 1..Len(s) : s[k] = x

IsPermutationOfComponents(s) ==
  /\ Len(s) = Cardinality(DOMAIN Components)
  /\ \A id \in DOMAIN Components :
       Cardinality({k \in 1..Len(s) : s[k] = Components[id]}) = 1

\* A list of IDs that names a closed loop of dependency edges.
IsClosedLoop(c) ==
  /\ Len(c) > 0
  /\ \A j, k \in 1..Len(c) : j # k => c[j] # c[k]
  /\ \A k \in 1..Len(c) :
       /\ c[k] \in DOMAIN Components
       /\ LET nxt == IF k = Len(c) THEN c[1] ELSE c[k + 1] IN
            /\ nxt \in DOMAIN Components
            /\ DependsOn(Components[c[k]], Components[nxt])

Returned(op) == pc = "returned" /\ call = op

\* C1: on an acyclic dependency graph TopologicalSort returns no error and a
\* list holding every component of ir.Components exactly once in which, for
\* every dependency edge A -> B, B comes before A, whatever the order in which
\* the component map is ranged over.
C1_TopologicalOrder ==
  (Returned("TopologicalSort") /\ ~HasCycle) =>
     /\ sortErr = Nil
     /\ ~result.nil
     /\ IsPermutationOfComponents(result.elems)
     /\ \A x, y \in Ptrs :
          DependsOn(x, y) => Position(result.elems, y) < Position(result.elems, x)

\* TopologicalSort has returned on an acyclic graph in which some component
\* has two different dependencies.
C1_Witness ==
  /\ Returned("TopologicalSort") /\ ~HasCycle
  /\ \E x, y, z \in Ptrs : y # z /\ DependsOn(x, y) /\ DependsOn(x, z)
  /\ Len(result.elems) = MaxNodes

\* C2: DetectCycles returns a non-empty result exactly when the dependency
\* graph has a cycle (self-loops included), in every iteration order; and
\* exactly then TopologicalSort returns a nil ordering and a CycleError that
\* carries the cycles DetectCycles found.
C2_CycleDetection ==
  /\ Returned("DetectCycles") => (Len(cycles) > 0 <=> HasCycle)
  /\ Returned("TopologicalSort") =>
       /\ HasCycle <=> (result.nil /\ sortErr # Nil)
       /\ HasCycle => (sortErr = CycleError(cycles) /\ Len(cycles) > 0)
       /\ ~HasCycle => (sortErr = Nil /\ ~result.nil)

\* TopologicalSort has failed on a graph with a cycle of two components.
C2_Witness ==
  /\ Returned("TopologicalSort") /\ HasCycle
  /\ sortErr = CycleError(cycles)
  /\ \E x, y \in Ptrs : x # y /\ DependsOn(x, y) /\ DependsOn(y, x)

\* C3: every cycle DetectCycles returns is a genuine closed loop: non-empty,
\* no component twice, each element with the next one among its
\* Dependencies and the last with the first, for every graph and every
\* iteration order.
C3_CyclesAreClosedLoops ==
  \A k \in 1..Len(cycles) : IsClosedLoop(cycles[k])


(***************************************************************************)
(* What the input of Build declares, read off the raw component list.      *)
(***************************************************************************)
KnownKind(raw) == raw.Kind \in AllKinds

\* The entries before k that have the ID of entry k and a known kind.
EarlierSameID(comps, k) ==
  {j \in 1..(k - 1) : comps[j].ID = comps[k].ID /\ KnownKind(comps[j])}

RECURSIVE ExpectedPhase1Errors(_, _)
\* The errors phase 1 owes for comps[1..k], in the order of the list.
ExpectedPhase1Errors(comps, k) ==
  IF k = 0 THEN <<>>
  ELSE ExpectedPhase1Errors(comps, k - 1) \o
       (IF ~KnownKind(comps[k])
        THEN <<[err |-> "unknown_kind", comp |-> comps[k].ID, kind |-> comps[k].Kind]>>
        ELSE IF EarlierSameID(comps, k) # {}
        THEN <<DuplicateSymbolError(comps[k].ID,
                 comps[CHOOSE j \in EarlierSameID(comps, k) :
                         \A j2 \in EarlierSameID(comps, k) : j <= j2].Kind)>>
        ELSE <<>>)

Phase1Clean == ExpectedPhase1Errors(spec, Len(spec)) = <<>>

\* The string items of the list-valued field key of a raw spec.
StringItems(m, key) ==
  IF key \in DOMAIN m /\ m[key].type = "[]interface{}"
  THEN LET items == SelectSeq(m[key].val, LAMBDA v : v.type = "string")
       IN [k \in 1..Len(items) |-> items[k].val]
  ELSE <<>>

Declared(from, names, edgeType) ==
  [k \in 1..Len(names) |-> [from |-> from, ref |-> names[k], type |-> edgeType]]

\* The text of s before its first ':' (empty if s has no ':').
ServerSegment(s) ==
  IF \E k \in 1..Len(s) : s[k] = Colon
  THEN SubSeq(s, 1, (CHOOSE k \in 1..Len(s) :
                       s[k] = Colon /\ \A j \in 1..(k - 1) : s[j] # Colon) - 1)
  ELSE <<>>

RawBindsTo(raw) ==
  IF "binds_to" \in DOMAIN raw.Spec /\ raw.Spec["binds_to"].type = "string"
  THEN raw.Spec["binds_to"].val ELSE <<>>

\* The references one raw component declares.
DeclaredBy(raw) ==
  CASE raw.Kind = KindHTTPServer ->
         Declared(raw.ID, StringItems(raw.Spec, "middleware"), EdgeTypeMiddleware)
         \o Declared(raw.ID, StringItems(raw.Spec, "depends_on"), EdgeTypeDependency)
    [] raw.Kind = KindMiddleware ->
         Declared(raw.ID, StringItems(raw.Spec, "depends_on"), EdgeTypeDependency)
    [] raw.Kind = KindUsecase ->
         (IF ServerSegment(RawBindsTo(raw)) # <<>>
          THEN <<[from |-> raw.ID, ref |-> ServerSegment(RawBindsTo(raw)),
                  type |-> EdgeTypeBinding]>>
          ELSE <<>>)
         \o Declared(raw.ID, StringItems(raw.Spec, "middleware"), EdgeTypeMiddleware)
    [] OTHER -> <<>>

RECURSIVE DeclaredRefs(_, _)
\* All declared references of comps[1..k].
DeclaredRefs(comps, k) ==
  IF k = 0 THEN <<>> ELSE DeclaredRefs(comps, k - 1) \o DeclaredBy(comps[k])

Count(s, P(_)) == Cardinality({k \in 1..Len(s) : P(s[k])})

RECURSIVE SumLen(_, _)
\* The total length of the lists f[x], x in S.
SumLen(f, S) ==
  IF S = {} THEN 0
  ELSE LET x == CHOOSE y \in S : TRUE IN Len(f[x]) + SumLen(f, S \ {x})

IsUnresolved(e) == e.err = "unresolved_reference"

BuildRanPhases == Returned("Build") /\ Phase1Clean /\ spec \in InputSpecs

\* C4: if phase 1 of Build reports any error, phases 2-4 do not run: the
\* returned IR has no edge, every component has empty Dependencies and
\* Dependents, no server has a parsed contract, no usecase has a Binding, and
\* the returned errors are exactly the phase-1 errors.
C4_Phase1ErrorsSkipLaterPhases ==
  (Returned("Build") /\ ~Phase1Clean) =>
     /\ Edges = <<>>
     /\ errs = ExpectedPhase1Errors(spec, Len(spec))
     /\ \A c \in DOMAIN heap :
          /\ heap[c].Dependencies = <<>>
          /\ heap[c].Dependents = <<>>
          /\ heap[c].HTTPServer # Nil => heap[c].HTTPServer.ParsedOpenAPI = Nil
          /\ heap[c].Usecase # Nil => heap[c].Usecase.Binding = Nil

\* Build has returned with a phase-1 error on a list that holds a server
\* with a contract and a usecase bound to it by a documented operation.
C4_Witness ==
  /\ Returned("Build") /\ Len(errs) > 0
  /\ \E c, d \in DOMAIN heap :
       /\ heap[c].Kind = KindHTTPServer /\ heap[c].HTTPServer.OpenAPI = ContractOK
       /\ heap[d].Kind = KindUsecase /\ heap[d].Usecase.BindsTo = Bind(A, GET, PathU)
       /\ heap[c].ID = A /\ heap[d].ID = A

\* C5: when phase 3 runs, every declared reference has exactly one outcome:
\* a name in the symbol table gives one Edge From -> To, with To appended to
\* From.Dependencies and From to To.Dependents; any other name gives one
\* unresolved-reference error naming the reference and the referencing
\* component.  So the number of edges is the total length of the Dependencies
\* lists and of the Dependents lists, and edges plus unresolved-reference
\* errors is the number of declared references.
C5_ReferenceResolution ==
  BuildRanPhases =>
    LET decl == DeclaredRefs(spec, Len(spec)) IN
    /\ \A k \in 1..Len(decl) :
         LET d == decl[k] IN
         IF d.ref \in DOMAIN Symbols
         THEN /\ Count(Edges, LAMBDA e : /\ heap[e.From].ID = d.from
                                         /\ e.To = Symbols[d.ref].Component
                                         /\ e.Type = d.type)
                 = Count(decl, LAMBDA x : x = d)
              /\ Count(errs, LAMBDA e : IsUnresolved(e) /\ e.ref = d.ref /\ e.comp = d.from) = 0
         ELSE /\ Count(errs, LAMBDA e : IsUnresolved(e) /\ e.ref = d.ref /\ e.comp = d.from)
                 = Count(decl, LAMBDA x : x.from = d.from /\ x.ref = d.ref)
              /\ Count(Edges, LAMBDA e : heap[e.From].ID = d.from /\ heap[e.To].ID = d.ref) = 0
    /\ \A c \in DOMAIN heap :
         /\ heap[c].Dependencies =
              LET out == SelectSeq(Edges, LAMBDA e : e.From = c)
              IN [k \in 1..Len(out) |-> out[k].To]
         /\ heap[c].Dependents =
              LET in == SelectSeq(Edges, LAMBDA e : e.To = c)
              IN [k \in 1..Len(in) |-> in[k].From]
    /\ Len(Edges) = SumLen([c \in DOMAIN heap |-> heap[c].Dependencies], DOMAIN heap)
    /\ Len(Edges) = SumLen([c \in DOMAIN heap |-> heap[c].Dependents], DOMAIN heap)
    /\ Len(Edges) + Count(errs, IsUnresolved) = Len(decl)

\* Build has returned after phase 3 resolved references of one component
\* with a miss followed by a hit.
C5_Witness ==
  /\ BuildRanPhases
  /\ \E k \in 1..Len(errs) : IsUnresolved(errs[k]) /\ errs[k].ref = Z
  /\ Len(Edges) >= 2
  /\ \E c \in DOMAIN heap : Len(heap[c].Dependents) >= 2

\* C6: in every IR Build returns (with or without errors, duplicate IDs and
\* unknown kinds included) the From and To of each Edge are components stored
\* in ir.Components under their own IDs.
C6_EdgesReferToStoredComponents ==
  Returned("Build") =>
    \A k \in 1..Len(Edges) :
      /\ Edges[k].From \in DOMAIN heap
      /\ Edges[k].To \in DOMAIN heap
      /\ heap[Edges[k].From].ID \in DOMAIN Components
      /\ Components[heap[Edges[k].From].ID] = Edges[k].From
      /\ heap[Edges[k].To].ID \in DOMAIN Components
      /\ Components[heap[Edges[k].To].ID] = Edges[k].To

\* Build has returned an IR with an edge between two different components.
C6_Witness ==
  /\ Returned("Build") /\ spec \in InputSpecs
  /\ \E k \in 1..Len(Edges) : Edges[k].From # Edges[k].To

IsDuplicateError(e, id) == e.err = "duplicate_symbol" /\ e.name = id

\* C7 as stated: a component list in which two or more entries share an ID
\* always yields a duplicate-symbol error naming that ID, whatever the kinds
\* and positions of the colliding entries.
C7_DuplicateIDsAlwaysReported ==
  Returned("Build") =>
    \A j, k \in 1..Len(spec) :
      (j < k /\ spec[j].ID = spec[k].ID) =>
         \E n \in 1..Len(errs) : IsDuplicateError(errs[n], spec[k].ID)

\* C7 amended: a component list in which two or more entries of a known kind
\* share an ID always yields a duplicate-symbol error naming that ID, whatever
\* the known kinds and the positions of the colliding entries.
C7_KnownKindDuplicatesReported ==
  Returned("Build") =>
    \A j, k \in 1..Len(spec) :
      (j < k /\ spec[j].ID = spec[k].ID /\ KnownKind(spec[j]) /\ KnownKind(spec[k])) =>
         \E n \in 1..Len(errs) : IsDuplicateError(errs[n], spec[k].ID)

\* Build has returned on two entries of different known kinds with one ID.
C7_Witness ==
  /\ Returned("Build") /\ Len(spec) = 2
  /\ spec[1].ID = spec[2].ID
  /\ KnownKind(spec[1]) /\ KnownKind(spec[2]) /\ spec[1].Kind # spec[2].Kind
  /\ \E n \in 1..Len(errs) : IsDuplicateError(errs[n], spec[1].ID)

(***************************************************************************)
(* Symbol table calls, read off the trace.                                 *)
(***************************************************************************)
EarlierDefines(k) ==
  {j \in 1..(k - 1) : trace[j].op = "Define" /\ trace[j].name = trace[k].name}

FirstDefine(k) ==
  CHOOSE j \in EarlierDefines(k) : \A j2 \in EarlierDefines(k) : j <= j2

\* C8: the symbol table is write-once and append-only: Define(name, ...) fails
\* exactly when name is already defined, a failed Define changes nothing,
\* Lookup(name) finds the kind and component of the first Define of name
\* (found = false if there is none) and changes nothing, and Len never
\* decreases and is the number of distinct names defined.
C8_SymbolTableWriteOnce ==
  /\ \A k \in 1..Len(trace) :
       LET e == trace[k] IN
       /\ e.op = "Define" =>
            /\ e.err # Nil <=> EarlierDefines(k) # {}
            /\ e.err # Nil => e.after = e.before
            /\ SymLen(e.after) >= SymLen(e.before)
       /\ e.op = "Lookup" =>
            /\ e.after = e.before
            /\ e.ok <=> EarlierDefines(k) # {}
            /\ e.ok => /\ e.sym.Kind = trace[FirstDefine(k)].kind
                       /\ e.sym.Component = trace[FirstDefine(k)].comp
                       /\ e.sym.Name = e.name
  /\ SymLen(Symbols) =
       Cardinality({trace[k].name : k \in {j \in 1..Len(trace) : trace[j].op = "Define"}})

\* A name was defined, defined again with another kind and component, and
\* then looked up.
C8_Witness ==
  \E k \in 1..Len(trace) :
    /\ trace[k].op = "Lookup" /\ trace[k].ok
    /\ \E j \in EarlierDefines(k) :
         /\ trace[j].err # Nil
         /\ trace[j].kind # trace[FirstDefine(k)].kind
         /\ trace[j].comp # trace[FirstDefine(k)].comp

(***************************************************************************)
(* Bindings.                                                               *)
(***************************************************************************)
ColonsOf(s) == {k \in 1..Len(s) : s[k] = Colon}

\* s reads server:METHOD:/path, split at its first two ':'.
WellFormedBinding(s) ==
  \E c1, c2 \in ColonsOf(s) :
    /\ c1 < c2
    /\ \A k \in ColonsOf(s) : k = c1 \/ k >= c2
    /\ SubSeq(s, c1 + 1, c2 - 1) \in {GET, POST, PUT, PATCH, DELETE, HEAD, OPTIONS}
    /\ c2 < Len(s) /\ s[c2 + 1] = Slash

Usecases == {c \in Ptrs : heap[c].Kind = KindUsecase /\ heap[c].Usecase.BindsTo # <<>>}

HasError(kind, c) ==
  \E n \in 1..Len(errs) : errs[n].err = kind /\ errs[n].comp = heap[c].ID

BindingErrors ==
  {"invalid_binds_to", "server_not_found", "not_http_server", "operation_not_found"}

\* C9: for every usecase with a non-empty binds_to, phase 4 reports an error
\* and leaves Binding unset when (a) the string is not server:METHOD:/path
\* with a whitelisted method and a path starting with '/', or (b) the server
\* segment is not in the symbol table (the error names it), or (c) it names a
\* component that is not an http.server; the other usecases are still
\* processed.
C9_BindingErrors ==
  BuildRanPhases =>
    \A c \in Usecases :
      LET s   == heap[c].Usecase.BindsTo
          seg == ServerSegment(s)
      IN
      /\ ~WellFormedBinding(s) =>
           HasError("invalid_binds_to", c) /\ heap[c].Usecase.Binding = Nil
      /\ (WellFormedBinding(s) /\ seg \notin DOMAIN Symbols) =>
           /\ \E n \in 1..Len(errs) :
                /\ errs[n].err = "server_not_found"
                /\ errs[n].comp = heap[c].ID /\ errs[n].server = seg
           /\ heap[c].Usecase.Binding = Nil
      /\ (WellFormedBinding(s) /\ seg \in DOMAIN Symbols
            /\ Symbols[seg].Kind # KindHTTPServer) =>
           HasError("not_http_server", c) /\ heap[c].Usecase.Binding = Nil

\* Build has returned on two usecases, the first with a method outside the
\* whitelist and the second bound to a component that is no server.
C9_Witness ==
  /\ BuildRanPhases /\ Len(spec) = 2
  /\ Cardinality(Usecases) = 2
  /\ \E c, d \in Usecases :
       /\ heap[c].Usecase.BindsTo = Bind(A, <<"g", "e", "t">>, PathU)
       /\ HasError("invalid_binds_to", c)
       /\ heap[d].Usecase.BindsTo = Bind(A, GET, PathU)
       /\ HasError("not_http_server", d)

\* The operations the contract file f documents.
Documented(f) == IF f \in DOMAIN Files THEN Files[f].ops ELSE {}

\* C10: for a usecase whose binds_to is well-formed and names an http.server:
\* if the server has a parsed contract, the Binding is attached exactly when
\* the contract documents an operation with that method and path, and then
\* Binding.Operation is that operation, and otherwise an operation-not-found
\* error is reported and no Binding is attached; if the server has no parsed
\* contract, no error is reported and the Binding is attached with ServerID,
\* Method and Path the three segments of binds_to and an empty Operation.
C10_BindingResolution ==
  BuildRanPhases =>
    \A c \in Usecases :
      LET s   == heap[c].Usecase.BindsTo
          seg == ServerSegment(s)
          bnd == heap[c].Usecase.Binding
      IN
      (WellFormedBinding(s) /\ seg \in DOMAIN Symbols
         /\ Symbols[seg].Kind = KindHTTPServer) =>
        LET srv == heap[Symbols[seg].Component].HTTPServer IN
        /\ \A kind \in BindingErrors \ {"operation_not_found"} : ~HasError(kind, c)
        /\ bnd # Nil =>
             /\ bnd.ServerID = seg
             /\ Bind(bnd.ServerID, bnd.Method, bnd.Path) = s
             /\ \A k \in 1..Len(bnd.Method) : bnd.Method[k] # Colon
        /\ IF srv.ParsedOpenAPI # Nil
           THEN LET match == {o \in Documented(srv.OpenAPI) :
                                Bind(seg, o.Method, o.Path) = s}
                IN /\ bnd # Nil <=> match # {}
                   /\ bnd # Nil => bnd.Operation \in match
                   /\ bnd = Nil <=> HasError("operation_not_found", c)
           ELSE /\ bnd # Nil
                /\ bnd.Operation = Nil
                /\ ~HasError("operation_not_found", c)

\* Build has returned on a server with a parsed contract and a usecase bound
\* to an operation the contract documents.
C10_Witness ==
  /\ BuildRanPhases
  /\ \E c \in Usecases :
       /\ heap[c].Usecase.Binding # Nil
       /\ heap[c].Usecase.Binding.Operation = [Method |-> GET, Path |-> PathU]
       /\ heap[c].Usecase.Binding.ServerID = A

\* The usecases Build attached a Binding to.
Bound == {c \in Usecases : heap[c].Usecase.Binding # Nil}

\* The typed spec of the server a Binding names.
BoundServer(bnd) == heap[Symbols[bnd.ServerID].Component].HTTPServer

\* C11 as stated: an attached Binding has an empty Operation only if the
\* bound server declares no contract (empty OpenAPI path); if the server
\* declares one, the Binding carries the documented operation with its
\* method and path.
C11_EmptyOperationOnlyWithoutContract ==
  Returned("Build") =>
    \A c \in Bound :
      LET bnd == heap[c].Usecase.Binding
          srv == BoundServer(bnd)
      IN /\ bnd.Operation = Nil => srv.OpenAPI = <<>>
         /\ srv.OpenAPI # <<>> =>
              /\ bnd.Operation \in Documented(srv.OpenAPI)
              /\ bnd.Operation.Method = bnd.Method
              /\ bnd.Operation.Path = bnd.Path

\* C11: an attached Binding has an empty Operation only if the bound server
\* has no parsed contract, that is, it declares none or its contract failed
\* to parse and Build returned a parse error naming the server and the path;
\* if the server's contract was parsed, the Binding carries the documented
\* operation with its method and path.
C11_EmptyOperationOnlyWithoutParsedContract ==
  Returned("Build") =>
    \A c \in Bound :
      LET bnd == heap[c].Usecase.Binding
          srv == BoundServer(bnd)
      IN /\ bnd.Operation = Nil =>
              \/ srv.OpenAPI = <<>>
              \/ /\ srv.ParsedOpenAPI = Nil
                 /\ ~(srv.OpenAPI \in DOMAIN Files /\ Files[srv.OpenAPI].valid)
                 /\ \E n \in 1..Len(errs) :
                      /\ errs[n].err = "openapi_parse"
                      /\ errs[n].comp = bnd.ServerID
                      /\ errs[n].path = srv.OpenAPI
         /\ (srv.OpenAPI \in DOMAIN Files /\ Files[srv.OpenAPI].valid) =>
              /\ bnd.Operation \in Documented(srv.OpenAPI)
              /\ bnd.Operation.Method = bnd.Method
              /\ bnd.Operation.Path = bnd.Path

\* Build has returned a usecase bound to a server whose contract failed to
\* parse: the Binding is attached without an Operation and the parse error
\* is among the returned errors.
C11_Witness ==
  /\ Returned("Build")
  /\ \E c \in Bound :
       /\ heap[c].Usecase.Binding.Operation = Nil
       /\ BoundServer(heap[c].Usecase.Binding).OpenAPI = ContractBad
       /\ \E n \in 1..Len(errs) : errs[n].err = "openapi_parse"

\* C12: every Binding Build attaches has a non-empty ServerID, a non-empty
\* Method and a non-empty Path.
C12_BindingFieldsNonEmpty ==
  Returned("Build") =>
    \A c \in Bound :
      /\ heap[c].Usecase.Binding.ServerID # <<>>
      /\ heap[c].Usecase.Binding.Method # <<>>
      /\ heap[c].Usecase.Binding.Path # <<>>

\* The variants of a component that are populated.
Populated(comp) ==
  {k \in AllKinds :
     CASE k = KindHTTPServer -> comp.HTTPServer # Nil
       [] k = KindMiddleware -> comp.Middleware # Nil
       [] k = KindPostgres   -> comp.Postgres # Nil
       [] k = KindUsecase    -> comp.Usecase # Nil}

\* C13: at every point of Build, every component stored in ir.Components
\* has exactly one populated variant, the one of its Kind, whatever its raw
\* spec map holds.
C13_OneVariantPerKind ==
  \A id \in DOMAIN Components :
    Populated(heap[Components[id]]) = {heap[Components[id]].Kind}

\* Build has returned components typed from an empty spec map and from a
\* map whose fields all have another type: each has the variant of its kind,
\* with zero-valued fields.
C13_Witness ==
  /\ Returned("Build") /\ Len(spec) = 2
  /\ spec[1].Spec = [framework |-> IntVal(1), port |-> StrVal(<<"p">>),
                     middleware |-> StrVal(B)]
  /\ spec[2].Kind = KindPostgres
  /\ A \in DOMAIN Components /\ B \in DOMAIN Components
  /\ heap[Components[A]].HTTPServer =
       [Framework |-> <<>>, Port |-> 0, OpenAPI |-> <<>>, Middleware |-> NilSlice,
        DependsOn |-> NilSlice, ParsedOpenAPI |-> Nil]
  /\ heap[Components[B]].Postgres = [Provider |-> <<>>, Schema |-> <<>>]

(***************************************************************************)
(* Validate.                                                               *)
(***************************************************************************)
\* The components of the IR, as values.
Comps == {heap[c] : c \in Ptrs}

ServerMissing  == Msg("better-auth middleware requires at least one http.server component")
DrizzleMissing ==
  Msg("better-auth middleware requires a postgres component with provider \"drizzle\"")

\* The number of errors Validate returned with this ID and message.
Reported(id, message) ==
  Cardinality({n \in 1..Len(errs) : errs[n].ID = id /\ errs[n].Message = message})

\* The number of errors Validate returned with this ID.
ReportedFor(id) == Cardinality({n \in 1..Len(errs) : errs[n].ID = id})

\* The middleware list of a server or a usecase.
MiddlewareList(comp) ==
  CASE comp.Kind = KindHTTPServer -> comp.HTTPServer.Middleware.elems
    [] comp.Kind = KindUsecase    -> comp.Usecase.Middleware.elems
    [] OTHER -> <<>>

\* Some better-auth middleware is named in the middleware list of a server
\* or a usecase.
BetterAuthRequired ==
  \E mw \in Comps, c \in Comps :
    /\ mw.Kind = KindMiddleware /\ mw.Middleware.Provider = BetterAuth
    /\ \E k \in 1..Len(MiddlewareList(c)) : MiddlewareList(c)[k] = mw.ID

NoServer  == ~\E c \in Comps : c.Kind = KindHTTPServer
NoDrizzle == ~\E c \in Comps : c.Kind = KindPostgres /\ c.Postgres.Provider = Drizzle

\* C15 as stated: Validate reports a cross-component error if and only if
\* some better-auth middleware is named in a middleware list.
C15_CrossErrorsIffReferenced ==
  Returned("Validate") =>
    (Reported(<<>>, ServerMissing) + Reported(<<>>, DrizzleMissing) > 0
       <=> BetterAuthRequired)

\* C15: Validate reports cross-component errors only if some better-auth
\* middleware is named in the middleware list of a server or a usecase; in
\* that case it reports exactly one error if the IR has no http.server and,
\* independently, exactly one if it has no postgres with provider drizzle,
\* and none for a requirement that is met.  A better-auth middleware named
\* in no middleware list causes no cross-component error.
C15_CrossComponentRequirements ==
  Returned("Validate") =>
    /\ Reported(<<>>, ServerMissing) =
         (IF BetterAuthRequired /\ NoServer THEN 1 ELSE 0)
    /\ Reported(<<>>, DrizzleMissing) =
         (IF BetterAuthRequired /\ NoDrizzle THEN 1 ELSE 0)

\* Validate has returned both cross-component errors: a usecase lists a
\* better-auth middleware and the IR has neither a server nor a database.
C15_Witness ==
  /\ Returned("Validate")
  /\ BetterAuthRequired /\ NoServer /\ NoDrizzle
  /\ Reported(<<>>, ServerMissing) = 1
  /\ Reported(<<>>, DrizzleMissing) = 1

\* The error for a middleware reference that points to a symbol of kind k.
MiddlewareMismatch(ref, k) ==
  [fmt  |-> "middleware reference %q points to %s, expected middleware",
   args |-> <<ref, k>>]

IsMiddlewareMismatch(e) ==
  e.Message.fmt = "middleware reference %q points to %s, expected middleware"

\* The entries of the list l that are the name ref.
Entries(l, ref) == {k \in 1..Len(l) : l[k] = ref}

\* C16: for every server and every usecase, Validate reports one
\* type-mismatch error, naming the reference and its actual kind, for each
\* entry of the middleware list that names a component of another kind than
\* middleware, and none for the entries that name middleware components.
C16_MiddlewareReferenceKinds ==
  Returned("Validate") =>
    \A c \in Comps :
      c.Kind \in {KindHTTPServer, KindUsecase} =>
        /\ \A ref \in DOMAIN Symbols :
             IF Symbols[ref].Kind # KindMiddleware
             THEN Reported(c.ID, MiddlewareMismatch(ref, Symbols[ref].Kind))
                    = Cardinality(Entries(MiddlewareList(c), ref))
             ELSE \A k \in AllKinds : Reported(c.ID, MiddlewareMismatch(ref, k)) = 0
        /\ Cardinality({n \in 1..Len(errs) :
                          errs[n].ID = c.ID /\ IsMiddlewareMismatch(errs[n])})
             = Cardinality({k \in 1..Len(MiddlewareList(c)) :
                              /\ MiddlewareList(c)[k] \in DOMAIN Symbols
                              /\ Symbols[MiddlewareList(c)[k]].Kind # KindMiddleware})

\* Validate has returned on a server that lists the database twice and a
\* usecase that lists the middleware and the database: two errors for the
\* server, one for the usecase.
C16_Witness ==
  /\ Returned("Validate")
  /\ \E sv, uc \in Comps :
       /\ sv.Kind = KindHTTPServer /\ MiddlewareList(sv) = <<PgID, PgID>>
       /\ uc.Kind = KindUsecase /\ MiddlewareList(uc) = <<MwID, PgID>>
       /\ MwID \in DOMAIN Symbols /\ PgID \in DOMAIN Symbols
       /\ Reported(sv.ID, MiddlewareMismatch(PgID, KindPostgres)) = 2
       /\ Reported(uc.ID, MiddlewareMismatch(PgID, KindPostgres)) = 1

PortMissing == Msg("missing required field: port")
PortRange   == Msg("port must be between 1 and 65535")

\* The raw port of the server the input declares; Nil when it declares none.
RawPort ==
  IF Len(spec) > 0 /\ spec[1].Kind = KindHTTPServer /\ "port" \in DOMAIN spec[1].Spec
  THEN spec[1].Spec["port"] ELSE Nil

\* C17: for a server component, Validate reports no port error if the port
\* is in 1..65535 and exactly one port error if it is not (absent or 0,
\* negative, or greater than 65535).
C17_PortRange ==
  Returned("Validate") =>
    \A c \in Comps :
      c.Kind = KindHTTPServer =>
        Reported(c.ID, PortMissing) + Reported(c.ID, PortRange)
          = (IF c.HTTPServer.Port >= 1 /\ c.HTTPServer.Port <= 65535 THEN 0 ELSE 1)

\* Validate has returned one port error for a server whose port is 65536.
C17_Witness ==
  /\ Returned("Validate")
  /\ RawPort = IntVal(65536)
  /\ Reported(SrvID, PortRange) = 1 /\ Reported(SrvID, PortMissing) = 0

CasbinModel  == Msg("casbin provider requires model field")
CasbinPolicy == Msg("casbin provider requires policy field")

\* C18: for a casbin middleware, Validate reports exactly one error citing
\* the model field if the model path is absent, exactly one citing the policy
\* field if the policy path is absent, and no other error: two when both are
\* absent, none when both are present.
C18_CasbinFields ==
  Returned("Validate") =>
    \A c \in Comps :
      (c.Kind = KindMiddleware /\ c.Middleware.Provider = Casbin) =>
        /\ Reported(c.ID, CasbinModel) = (IF c.Middleware.Model = <<>> THEN 1 ELSE 0)
        /\ Reported(c.ID, CasbinPolicy) = (IF c.Middleware.Policy = <<>> THEN 1 ELSE 0)
        /\ ReportedFor(c.ID) = Reported(c.ID, CasbinModel) + Reported(c.ID, CasbinPolicy)

\* Validate has returned on a casbin middleware with neither path: the two
\* errors, the model one first.
C18_Witness ==
  /\ Returned("Validate")
  /\ spec = <<[ID |-> MwID, Kind |-> KindMiddleware,
               Spec |-> [provider |-> StrVal(Casbin)]]>>
  /\ errs = <<ValidationError(MwID, CasbinModel), ValidationError(MwID, CasbinPolicy)>>

(***************************************************************************)
(* Hashes.                                                                 *)
(***************************************************************************)
\* s and t hold the same items the same number of times.
IsPermutation(s, t) ==
  /\ Len(s) = Len(t)
  /\ \A x \in SeqToSet(s) \cup SeqToSet(t) :
       Cardinality({k \in 1..Len(s) : s[k] = x}) = Cardinality({k \in 1..Len(t) : t[k] = x})

\* C19: two specifications with equal version, name and description whose
\* component lists are permutations of each other have the same spec hash.
C19_SpecHashIgnoresComponentOrder ==
  \A i, j \in 1..Len(trace) :
    (/\ trace[i].op = "ComputeSpecHash" /\ trace[j].op = "ComputeSpecHash"
     /\ trace[i].arg.Version = trace[j].arg.Version
     /\ trace[i].arg.Name = trace[j].arg.Name
     /\ trace[i].arg.Description = trace[j].arg.Description
     /\ IsPermutation(trace[i].arg.Components, trace[j].arg.Components))
    => trace[i].hash = trace[j].hash

\* Two slices are both nil or both non-nil, with the same items in any order.
SameItems(s, t) == s.nil = t.nil /\ IsPermutation(s.elems, t.elems)

\* c and d are the same component up to the order of the items within
\* their list-valued fields.
SameUpToListOrder(c, d) ==
  /\ c.ID = d.ID /\ c.Kind = d.Kind
  /\ CASE c.Kind = KindHTTPServer ->
            /\ SameItems(c.HTTPServer.Middleware, d.HTTPServer.Middleware)
            /\ SameItems(c.HTTPServer.DependsOn, d.HTTPServer.DependsOn)
            /\ [c.HTTPServer EXCEPT !.Middleware = NilSlice, !.DependsOn = NilSlice]
                 = [d.HTTPServer EXCEPT !.Middleware = NilSlice, !.DependsOn = NilSlice]
       [] c.Kind = KindMiddleware ->
            /\ SameItems(c.Middleware.DependsOn, d.Middleware.DependsOn)
            /\ [c.Middleware EXCEPT !.DependsOn = NilSlice]
                 = [d.Middleware EXCEPT !.DependsOn = NilSlice]
       [] c.Kind = KindPostgres -> c.Postgres = d.Postgres
       [] c.Kind = KindUsecase ->
            /\ SameItems(c.Usecase.Middleware, d.Usecase.Middleware)
            /\ SameItems(c.Usecase.Preconditions, d.Usecase.Preconditions)
            /\ SameItems(c.Usecase.AcceptanceCriteria, d.Usecase.AcceptanceCriteria)
            /\ SameItems(c.Usecase.Postconditions, d.Usecase.Postconditions)
            /\ [c.Usecase EXCEPT !.Middleware = NilSlice, !.Preconditions = NilSlice,
                                 !.AcceptanceCriteria = NilSlice,
                                 !.Postconditions = NilSlice]
                 = [d.Usecase EXCEPT !.Middleware = NilSlice, !.Preconditions = NilSlice,
                                     !.AcceptanceCriteria = NilSlice,
                                     !.Postconditions = NilSlice]

\* C20: two components that differ only in the order of the items within
\* their list-valued fields have the same component hash, and a call of
\* ComputeComponentHash leaves the component, its lists included, as it was.
C20_ComponentHashIgnoresListOrder ==
  /\ \A i, j \in 1..Len(trace) :
       (/\ trace[i].op = "ComputeComponentHash" /\ trace[j].op = "ComputeComponentHash"
        /\ SameUpToListOrder(trace[i].arg, trace[j].arg))
       => trace[i].hash = trace[j].hash
  /\ \A i \in 1..Len(trace) :
       trace[i].op = "ComputeComponentHash" => heap[i] = trace[i].arg

\* Two usecases whose preconditions are the same three items in different
\* orders, none of them sorted, have been hashed to the same hash, and the
\* lists are as they were.
C20_Witness ==
  /\ Len(trace) = 2
  /\ trace[1].op = "ComputeComponentHash" /\ trace[2].op = "ComputeComponentHash"
  /\ trace[1].arg.Kind = KindUsecase /\ trace[2].arg.Kind = KindUsecase
  /\ trace[1].arg.Usecase.Preconditions = Slice(<<B, A \o B>>)
  /\ trace[2].arg.Usecase.Preconditions = Slice(<<A \o B, B>>)
  /\ SameUpToListOrder(trace[1].arg, trace[2].arg)
  /\ trace[1].hash = trace[2].hash
  /\ heap[1].Usecase.Preconditions = Slice(<<B, A \o B>>)

IsStageRun(e) == e.call = "Stage.Run"
StageRuns == SelectSeq(trace, IsStageRun)
CallsOf(names) == {k \in 1..Len(trace) : trace[k].call \in names}
FailedCallsOf(names) == {k \in CallsOf(names) : trace[k].failed}

\* C14: Pipeline.Run runs the stages of the compile command in the order
\* given and stops at the first one that returns an error: the stages run
\* so far are a prefix of parse, validate-schema, build-ir, validate-ir,
\* generate, write, none of them but the last has failed, and Run returns
\* that stage's error; so Build is never called after a schema failure, no
\* generator is called when Build or Validate reported an error, and no file
\* is written when a generator or the artifact planning failed.
C14_PipelineStopsAtFirstError ==
  /\ Len(StageRuns) <= Len(CompileStages)
  /\ \A k \in 1..Len(StageRuns) :
       /\ StageRuns[k].arg = CompileStages[k]
       /\ StageRuns[k].failed => k = Len(StageRuns) /\ pc = "returned" /\ errs # <<>>
  /\ (pc = "returned" /\ errs = <<>>) => Len(StageRuns) = Len(CompileStages)
  /\ ~spec.SchemaOK => CallsOf({"Build"}) = {}
  /\ FailedCallsOf({"Build", "Validate"}) # {} => CallsOf({"Generate"}) = {}
  /\ Len(BuildInOrder(spec.AST).errs) > 0 => CallsOf({"Generate"}) = {}
  /\ Len(ValidateInOrder(BuildInOrder(spec.AST))) > 0 => CallsOf({"Generate"}) = {}
  /\ FailedCallsOf({"Generate", "AddOutput"}) # {} => CallsOf({"WriteFile"}) = {}

\* A run in which Build and Validate succeed, the first generator's output
\* is planned and the second one's conflicts with it: Run returns the
\* planning error after five stages and no file is written.
C14_Witness ==
  /\ pc = "returned" /\ call = "Pipeline.Run"
  /\ Len(StageRuns) = 5 /\ StageRuns[5].failed
  /\ FailedCallsOf({"Build", "Validate"}) = {}
  /\ CallsOf({"Build"}) # {} /\ CallsOf({"Validate"}) # {}
  /\ Cardinality(CallsOf({"Generate"})) = 2
  /\ FailedCallsOf({"AddOutput"}) # {}
  /\ CallsOf({"WriteFile"}) = {}
  /\ errs = <<[err |-> "artifact planning failed", gen |-> "docker"]>>

VariantOf(kind) ==
  CASE kind = KindHTTPServer -> "HTTPServer"
    [] kind = KindMiddleware -> "Middleware"
    [] kind = KindPostgres   -> "Postgres"
    [] kind = KindUsecase    -> "Usecase"

ListFieldsOf(kind) ==
  CASE kind = KindHTTPServer -> {"Middleware", "DependsOn"}
    [] kind = KindMiddleware -> {"DependsOn"}
    [] kind = KindPostgres   -> {}
    [] kind = KindUsecase    -> {"Middleware", "Preconditions", "AcceptanceCriteria",
                                 "Postconditions"}

\* d is c with one list-valued field, nil in c, present and empty.
AbsentVersusEmpty(c, d) ==
  /\ c.Kind = d.Kind
  /\ \E f \in ListFieldsOf(c.Kind) :
       /\ c[VariantOf(c.Kind)][f] = NilSlice
       /\ d = [c EXCEPT ![VariantOf(c.Kind)][f] = Slice(<<>>)]

\* C21: two components that differ only in one list-valued field, absent
\* (nil) in one and present but empty in the other, get different hashes
\* from ComputeComponentHash.
C21_AbsentAndEmptyListsHashDifferently ==
  (pc = "returned" /\ call = "ComputeComponentHash"
     /\ AbsentVersusEmpty(trace[1].arg, trace[2].arg))
    => trace[1].hash # trace[2].hash

\* A usecase without postconditions and the same usecase with an empty
\* postconditions list have been hashed, to different hashes.
C21_Witness ==
  /\ pc = "returned" /\ call = "ComputeComponentHash"
  /\ AbsentVersusEmpty(trace[1].arg, trace[2].arg)
  /\ trace[1].arg.Kind = KindUsecase
  /\ trace[1].arg.Usecase.Postconditions = NilSlice
  /\ trace[2].arg.Usecase.Postconditions = Slice(<<>>)
  /\ trace[1].hash # trace[2].hash

IsDocument == spec \notin {NoFile, IsDirectory, InvalidJSON}
Stored(key) ==
  IF spec.type = "object" THEN fieldValue(spec.val, key) ELSE JSONNull
IsStrings(v) ==
  \/ v.type = "null"
  \/ /\ v.type = "[]interface{}"
     /\ \A k \in 1..Len(v.val) : v.val[k].type \in {"null", "string"}
IsEntry(e) ==
  \/ e.type = "null"
  \/ /\ e.type = "object"
     /\ fieldValue(e.val, "hash").type \in {"null", "string"}
     /\ IsStrings(fieldValue(e.val, "artifacts"))
\* The document holds values of the JSON types of the cache's fields.
FieldsAreTyped ==
  /\ spec.type \in {"null", "object"}
  /\ Stored("cache_version").type \in {"null", "string"}
  /\ Stored("specHash").type \in {"null", "string"}
  /\ \/ Stored("components").type = "null"
     \/ /\ Stored("components").type = "object"
        /\ \A id \in DOMAIN Stored("components").val :
             IsEntry(Stored("components").val[id])
VersionMissing == Stored("cache_version").type = "null"
VersionIsCurrent ==
  Stored("cache_version").type = "string" /\ Stored("cache_version").val = CurrentCacheVersion
EmptyCache ==
  /\ result # Nil /\ sortErr = Nil
  /\ result.Version = CurrentCacheVersion
  /\ result.SpecHash = Text(<<>>)
  /\ DOMAIN result.Components = {}
StoredEntryKept(id) ==
  LET e == Stored("components").val[id] IN
  IF e.type = "null" THEN result.Components[id] = Nil
  ELSE LET hash      == fieldValue(e.val, "hash")
           artifacts == fieldValue(e.val, "artifacts")
       IN /\ result.Components[id].Hash
               = (IF hash.type = "null" THEN Text(<<>>) ELSE hash.val)
          /\ result.Components[id].Artifacts =
               IF artifacts.type = "null" THEN NilSlice
               ELSE Slice([k \in 1..Len(artifacts.val) |->
                             IF artifacts.val[k].type = "null" THEN <<>>
                             ELSE artifacts.val[k].val])
StoredCacheKept ==
  /\ result # Nil /\ sortErr = Nil
  /\ result.Version = CurrentCacheVersion
  /\ result.SpecHash = (IF Stored("specHash").type = "null" THEN Text(<<>>)
                        ELSE Stored("specHash").val)
  /\ IF Stored("components").type = "null" THEN DOMAIN result.Components = {}
     ELSE /\ DOMAIN result.Components = DOMAIN Stored("components").val
          /\ \A id \in DOMAIN result.Components : StoredEntryKept(id)

\* C22: Load returns an empty cache of the current version when the file
\* does not exist or its cache_version is missing or differs from the
\* current one; it returns the stored spec hash and component entries
\* unchanged when the stored version is the current one; it returns an error
\* and no cache when the file is not valid JSON.
C22_LoadInvalidatesOtherVersions ==
  call = "Load" =>
    /\ spec = NoFile => EmptyCache
    /\ spec = InvalidJSON => result = Nil /\ sortErr # Nil
    /\ (IsDocument /\ ~VersionIsCurrent) => EmptyCache
    /\ (IsDocument /\ VersionIsCurrent) => StoredCacheKept

\* What Load does on the documents of which C22 fails: a document that
\* holds a value of another JSON type than the field it is for is refused
\* with an error whatever its version, and C22 holds of the other files.
LoadOfTypedDocuments ==
  call = "Load" =>
    /\ spec = NoFile => EmptyCache
    /\ spec = InvalidJSON => result = Nil /\ sortErr # Nil
    /\ (IsDocument /\ ~FieldsAreTyped) => result = Nil /\ sortErr # Nil
    /\ (IsDocument /\ FieldsAreTyped /\ ~VersionIsCurrent) => EmptyCache
    /\ (IsDocument /\ FieldsAreTyped /\ VersionIsCurrent) => StoredCacheKept

\* A document of version 99.0 whose components are an array has been
\* refused by Load with an error.
LoadRefusedOtherVersion ==
  /\ call = "Load" /\ pc = "returned"
  /\ IsDocument
  /\ Stored("cache_version") = StrVal(<<"9", "9", ".", "0">>)
  /\ Stored("components").type = "[]interface{}"
  /\ result = Nil /\ sortErr = [err |-> "failed to parse cache"]

\* A file of version 99.0 with a spec hash and two component entries has
\* been loaded as an empty cache.
C22_Witness ==
  /\ call = "Load" /\ pc = "loaded"
  /\ IsDocument
  /\ Stored("cache_version") = StrVal(<<"9", "9", ".", "0">>)
  /\ Stored("specHash") = StrVal(Text(<<"s">>))
  /\ Stored("components").type = "object"
  /\ DOMAIN Stored("components").val = {A, Z}
  /\ EmptyCache

\* C29: after Cache.Update(ir) the cache's keys are exactly the IDs of
\* ir.Components, each entry holds ComputeComponentHash of its component and
\* an empty artifact list whatever was recorded before, and SpecHash is
\* ComputeSpecHash(ir); SetArtifacts for an ID that is not in the cache
\* leaves the cache as it was.
C29_UpdateReplacesEntries ==
  /\ call = "Update" =>
       /\ DOMAIN result.Components = DOMAIN Components
       /\ DOMAIN result.Components = {heap[c].ID : c \in DOMAIN heap}
       /\ \A id \in DOMAIN result.Components :
            /\ result.Components[id].Hash
                 = ComputeComponentHash(heap[Components[id]]).hash
            /\ result.Components[id].Artifacts = Slice(<<>>)
       /\ result.SpecHash = ComputeSpecHash(trace[1].arg)
  /\ (call = "SetArtifacts" /\ trace[1].arg.id \notin DOMAIN trace[1].before.Components)
       => result = trace[1].before

\* Update with an IR of the one component a, on a cache that held entries
\* for a (with two artifacts recorded by SetArtifacts) and for z: the entry
\* of z is gone and a's artifact list is empty.
C29_Witness ==
  /\ call = "Update" /\ pc = "loaded"
  /\ DOMAIN trace[1].before.Components = {A, Z}
  /\ trace[1].before.Components[A].Artifacts = Slice(<<B, A>>)
  /\ DOMAIN result.Components = {A}
  /\ result.Components[A].Artifacts = Slice(<<>>)
  /\ result.Components[A].Hash # trace[1].before.Components[A].Hash

\* SetArtifacts for z, which the cache has no entry for, has left the cache
\* of one entry as it was.
C29_WitnessSetArtifacts ==
  /\ call = "SetArtifacts" /\ pc = "loaded"
  /\ trace[1].arg.id = Z /\ trace[1].arg.artifacts = Slice(<<B, A>>)
  /\ DOMAIN trace[1].before.Components = {A}
  /\ result = trace[1].before

Planned(byPath) == {byPath[p] : p \in DOMAIN byPath}

\* C23: on one ArtifactPlanner every path is planned at most once.  An Add
\* with an empty path, or with a path already planned by any owner, fails
\* and leaves the plan as it was; the conflict error names the path, the
\* owner that planned it and the owner that attempted it; an Add that
\* succeeds plans exactly the artifact given.  No Add or AddOutput changes
\* an artifact already planned, and Artifacts returns the planned artifacts,
\* each once, in ascending order of path.
C23_PathsPlannedOnce ==
  /\ \A p \in DOMAIN heap : p # <<>> /\ heap[p].Path = p
  /\ call = "Add" =>
       LET before == trace[1].before
           arg    == trace[1].arg
       IN /\ arg.path = <<>> => sortErr # Nil /\ heap = before
          /\ arg.path \in DOMAIN before =>
               /\ sortErr = [err |-> "artifact path conflict", Path |-> arg.path,
                             ExistingOwner |-> before[arg.path].Owner,
                             IncomingOwner |-> arg.owner]
               /\ heap = before
          /\ (arg.path # <<>> /\ arg.path \notin DOMAIN before) =>
               /\ sortErr = Nil
               /\ DOMAIN heap = DOMAIN before \cup {arg.path}
               /\ heap[arg.path] = [Owner |-> arg.owner, Path |-> arg.path,
                                    Content |-> arg.content,
                                    ComponentID |-> arg.componentID]
  /\ call \in {"Add", "AddOutput"} =>
       \A p \in DOMAIN trace[1].before :
         p \in DOMAIN heap /\ heap[p] = trace[1].before[p]
  /\ call = "Artifacts" =>
       /\ heap = trace[1].before
       /\ Len(result.elems) = Cardinality(DOMAIN heap)
       /\ SeqToSet(result.elems) = Planned(heap)
       /\ \A k \in 1..(Len(result.elems) - 1) :
            StringLess(result.elems[k].Path, result.elems[k + 1].Path)

\* gen-b adds the path a that gen-a has planned: the call fails naming the
\* path and both owners and gen-a's artifact is as it was.
C23_Witness ==
  /\ call = "Add"
  /\ trace[1].arg.path = A /\ trace[1].arg.owner = "gen-b"
  /\ trace[1].arg.content = "b"
  /\ A \in DOMAIN trace[1].before
  /\ trace[1].before[A].Owner = "gen-a" /\ trace[1].before[A].Content = "a"
  /\ sortErr = [err |-> "artifact path conflict", Path |-> A,
                ExistingOwner |-> "gen-a", IncomingOwner |-> "gen-b"]
  /\ heap[A].Owner = "gen-a" /\ heap[A].Content = "a"
  /\ Cardinality(DOMAIN heap) = 3

\* full is a path below dir.
Inside(dir, full) ==
  /\ full.rooted = dir.rooted
  /\ Len(full.segs) > Len(dir.segs)
  /\ SubSeq(full.segs, 1, Len(dir.segs)) = dir.segs
Escapes(k) == ~Inside(spec.OutputDir, Join(spec.OutputDir, spec.Artifacts[k].Path))

\* C24: the write stage writes no file outside the output directory; it
\* goes past no artifact whose path resolves outside the output directory
\* and returns an error saying the path escapes the output directory at the
\* first such artifact; the artifacts it has gone past, whose paths stay
\* inside, are written.
C24_WriteStaysInsideOutputDir ==
  /\ \A f \in DOMAIN heap.files : Inside(spec.OutputDir, f)
  /\ \A k \in 1..Len(spec.Artifacts) : k < iComp => ~Escapes(k)
  /\ (pc = "returned" /\ iComp <= Len(spec.Artifacts) /\ Escapes(iComp))
       => sortErr # Nil /\ sortErr.err = "escapes output directory"
  /\ \A k \in 1..Len(spec.Artifacts) :
       k < iComp => Join(spec.OutputDir, spec.Artifacts[k].Path) \in DOMAIN heap.files

\* The component pointers in the order of their creation.
OrderedPtrs ==
  [k \in 1..Cardinality(Ptrs) |->
     CHOOSE c \in Ptrs : Cardinality({d \in Ptrs : d < c}) = k - 1]

\* Build returned no error on the input and Validate has returned none.
CleanCompile ==
  /\ Returned("Validate") /\ errs = <<>>
  /\ Len(BuildInOrder(spec).errs) = 0

\* C25: when Build and then Validate return no errors, every middleware
\* edge ends at a middleware component, every binding edge ends at an
\* http.server, every usecase has a Binding attached, the dependency graph
\* has no cycle and TopologicalSort, which fails only when DetectCycles
\* reports a cycle, succeeds.
C25_CleanIRIsWellTyped ==
  CleanCompile =>
    /\ \A k \in 1..Len(Edges) :
         /\ Edges[k].Type = EdgeTypeMiddleware => heap[Edges[k].To].Kind = KindMiddleware
         /\ Edges[k].Type = EdgeTypeBinding => heap[Edges[k].To].Kind = KindHTTPServer
    /\ \A c \in Ptrs : heap[c].Kind = KindUsecase => heap[c].Usecase.Binding # Nil
    /\ ~HasCycle
    /\ detectCyclesFrom(heap, OrderedPtrs, 1,
                        [visited |-> {}, inStack |-> {}, path |-> <<>>,
                         cycles |-> <<>>]) = <<>>

\* A clean compile of a server, a middleware, a postgres and a usecase bound
\* to the server, with a middleware edge and a binding edge in the IR.
C25_Witness ==
  /\ CleanCompile
  /\ Cardinality(Ptrs) = 4
  /\ \E k \in 1..Len(Edges) : Edges[k].Type = EdgeTypeMiddleware
  /\ \E k \in 1..Len(Edges) : Edges[k].Type = EdgeTypeBinding
  /\ \E c \in Ptrs : heap[c].Kind = KindUsecase /\ heap[c].Usecase.Binding # Nil

\* The IDs of the input components, and one name none of them has.
InputNames == {spec[k].ID : k \in 1..Len(spec)} \cup {Z}
DeclaredWithKnownKind(name) == \E k \in 1..Len(spec) : spec[k].ID = name /\ KnownKind(spec[k])

\* C26: after Build the symbol table and the component map agree: a name
\* is found by Lookup exactly when it is a key of ir.Components, exactly
\* when it is the ID of an input component with a known kind, and the
\* symbol's Kind and Component are the kind of, and the component stored in
\* ir.Components under that name.
C26_SymbolsAgreeWithComponents ==
  Returned("Build") =>
    \A name \in InputNames :
      /\ Lookup(Symbols, name).ok <=> name \in DOMAIN Components
      /\ name \in DOMAIN Components <=> DeclaredWithKnownKind(name)
      /\ name \in DOMAIN Components =>
           /\ Lookup(Symbols, name).sym.Component = Components[name]
           /\ Lookup(Symbols, name).sym.Kind = heap[Components[name]].Kind

\* The edges as (from, to, type) triples of IDs.
EdgeSet(h, edges) ==
  {[From |-> h[edges[k].From].ID, To |-> h[edges[k].To].ID, Type |-> edges[k].Type] :
     k \in 1..Len(edges)}

\* The Binding attached to each usecase.
Bindings(h) ==
  {[ID |-> h[c].ID, Binding |-> h[c].Usecase.Binding] :
     c \in {d \in DOMAIN h : h[d].Kind = KindUsecase}}

\* C27: for a fixed component list the errors Build returns (as a
\* multiset), the edges and the attached bindings, and whether Validate
\* returns any error, are those of the run that takes every map in the order
\* of the list, whatever order the maps are ranged over.
C27_VerdictIgnoresIterationOrder ==
  /\ Returned("Build") =>
       /\ IsPermutation(errs, BuildInOrder(spec).errs)
       /\ EdgeSet(heap, Edges) = EdgeSet(BuildInOrder(spec).heap, BuildInOrder(spec).Edges)
       /\ Bindings(heap) = Bindings(BuildInOrder(spec).heap)
  /\ Returned("Validate") =>
       ((errs # <<>>) <=> (Len(ValidateInOrder(BuildInOrder(spec))) > 0))

\* Build has returned, with an edge made, the errors of the run that
\* follows the list in another order.
C27_Witness ==
  /\ Returned("Build")
  /\ Len(errs) >= 2
  /\ errs # BuildInOrder(spec).errs
  /\ IsPermutation(errs, BuildInOrder(spec).errs)
  /\ Edges # <<>>

\* Validate has returned no error on a clean IR whose roots DetectCycles
\* took in an order other than the list's.
C27_WitnessValidate ==
  /\ Returned("Validate") /\ errs = <<>>
  /\ Len(spec) = 3
  /\ Len(path) = 0 /\ Cardinality(visited) = 3

\* C28: whenever Build has attached a Binding to a usecase, ir.Edges holds
\* a binding edge from the usecase to the component Binding.ServerID names,
\* which is among the usecase's Dependencies and has the usecase among its
\* Dependents.
C28_BindingHasBindingEdge ==
  Returned("Build") =>
    \A u \in Ptrs :
      (heap[u].Kind = KindUsecase /\ heap[u].Usecase.Binding # Nil) =>
        \E k \in 1..Len(Edges) :
          /\ Edges[k].Type = EdgeTypeBinding
          /\ Edges[k].From = u
          /\ heap[Edges[k].To].ID = heap[u].Usecase.Binding.ServerID
          /\ Edges[k].To \in SeqToSet(heap[u].Dependencies)
          /\ u \in SeqToSet(heap[Edges[k].To].Dependents)

NoDependencies(c) == heap[c].Dependencies = <<>>
Sorted == Returned("TopologicalSort") /\ sortErr = Nil

\* C30: in the list TopologicalSort returns, every component without
\* dependencies comes before every component that has one.
C30_DependencyFreeFirst ==
  Sorted =>
    \A j, k \in 1..Len(result.elems) :
      (NoDependencies(result.elems[j]) /\ ~NoDependencies(result.elems[k])) => j < k

\* What the list TopologicalSort returns does satisfy: every component that
\* has a dependency comes after some component without dependencies that it
\* depends on, directly or through others; so the list begins with a
\* component without dependencies.
C30_DependencyFreeBeforeDependents ==
  Sorted =>
    \A k \in 1..Len(result.elems) :
      ~NoDependencies(result.elems[k]) =>
        \E j \in 1..(k - 1) :
          /\ NoDependencies(result.elems[j])
          /\ result.elems[j] \in ReachableIn({result.elems[k]}, Cardinality(DOMAIN heap))

\* TopologicalSort has returned a list in which a component without
\* dependencies comes after a component that has one.
C30_Witness ==
  /\ Sorted
  /\ \E j, k \in 1..Len(result.elems) :
       /\ j < k
       /\ ~NoDependencies(result.elems[j])
       /\ NoDependencies(result.elems[k])

====
